---- MODULE Spec2Model ----
(***************************************************************************)
(* Seed-estimation pipeline of mrcal/calibration.py.                       *)
(*                                                                         *)
(* This module models the stages of the seed computation:                  *)
(*  - estimate_monocular_calobject_poses_Rt_tocam(): the lens check, the   *)
(*    reprojection to a pinhole model and the pose solve of every          *)
(*    observation, with its single retry;                                  *)
(*  - _estimate_camera_poses(): the connectivity matrix built from the     *)
(*    frame/camera index list, the pairwise relative pose of two cameras,  *)
(*    and the Dijkstra search that propagates every camera's pose to       *)
(*    camera 0;                                                            *)
(*  - estimate_joint_frame_poses(): one pose of the calibration object per *)
(*    frame, in the reference coordinate system;                           *)
(*  - make_seed_pinhole(), which runs the three in sequence.               *)
(*                                                                         *)
(* Conventions                                                             *)
(*  - Python indices are kept: row i of indices_frame_camera is Row(i),    *)
(*    i = 0..Nobservations-1; the sentinel -1 of the source is -1 here.    *)
(*  - Rt_0c is a sequence; Python's Rt_0c[c-1] is Rt_0c[c] here.           *)
(*  - None is NoCost for a cost and NoPose for a pose.                     *)
(*  - Rigid poses are the affine maps x |-> a*x + b of Z_7 (a in {1,6}),   *)
(*    a non-commutative group of 14 elements standing for SE(3); the       *)
(*    calibration object is the two points 0 and 1, which determine a pose.*)
(*    Z_7 is a field: the mean of up to six points is defined in it.       *)
(*  - Frame and camera indices are non-negative, the list is not empty.    *)
(*  - frame_reps: every run of rows with one frame index stands for        *)
(*    frame_reps consecutive frames with the same cameras in them, so a    *)
(*    list of hundreds of thousands of frames is a short list here.        *)
(***************************************************************************)
EXTENDS Integers, Sequences, FiniteSets, TLC

VARIABLES
    indices_frame_camera,          \* input: sequence of <<iframe, icam>>
    frame_reps,                    \* input: frames each run of rows stands for
    calobject_poses_local_Rt_cf,   \* input: local pose of each row
    Ncameras,                      \* the largest camera index of the list, + 1
    pc,                            \* "start", "search", "finished", "done", "failed"
    err,                           \* "" or the kind of the exception raised
    shared_frames,                 \* the connectivity matrix
    cost_to_node,                  \* Node.cost_to_node of every camera
    from_idx,                      \* Node.from_idx of every camera
    heap,                          \* the heapq list, of camera indices
    Rt_0c,                         \* camera-i to camera-0 transforms
    result,                        \* the returned array, NoResult before
    pop_log,                       \* history: <<camera, cost>> of every pop
    align_log,                     \* history: every call of the alignment
    pairwise_log,                  \* history: every call of compute_pairwise_Rt
    i_observation,                 \* the index of the loop over the rows
    \* estimate_monocular_calobject_poses_Rt_tocam
    models_or_intrinsics,          \* input: <<lens model, intrinsics>> of every camera
    observations,                  \* input: the points <<x, y, weight>> of every row
    observations_copy,             \* the local copy, reprojected to pinhole
    mono_pc,                       \* "idle", "start", "reproject", "solve", "done", "failed"
    mono_err,                      \* "" or the kind of the exception raised
    Rt_cf_all,                     \* the array returned: a pose for every row
    solve_log,                     \* history: every call of the pose solver
    reproject_log,                 \* history: the rows reprojected
    \* estimate_joint_frame_poses
    extrinsics_Rt_fromref,         \* input: the pose of camera c is entry c (c >= 1)
    joint_pc,                      \* "idle", "loop", "done", "failed"
    joint_err,                     \* "" or the kind of the exception raised
    iframe_current,
    i_observation_framestart,
    frames_rt_toref,               \* the array returned: a pose for every frame
    joint_log,                     \* history: every call of Rt_ref_frame
    \* make_seed_pinhole
    imagersizes,                   \* input: <<width, height>> of every camera
    intrinsics_data,               \* the pinhole intrinsics of every camera
    seed_pc,                       \* "idle", "start", "mono", "cameras", "frames", "done"
    seed_result,                   \* the tuple returned, NoSeed before
    \* compute_chessboard_corners
    corners_args,                  \* input: Nw, Nh, Nglobs, exclude_images, the cache path
    corners_input,                 \* input: the blocks the detector or the cache gives
    corners_pc,                    \* "idle", "start", "read", "wait", "move", "copying",
                                   \* "check", "build", "done", "failed", "interrupted"
    corners_err,                   \* "" or the kind of the exception raised
    corners_i,                     \* the blocks read so far
    context,                       \* the image being accumulated
    mapping,                       \* the dict file -> grid, as the sequence of its items
    files_per_camera,              \* the files of every glob
    tmpfile,                       \* the file of mkstemp()
    cache_file,                    \* the file at the path corners_cache_vnl
    corners_output,                \* the detector: "none", "running", "exit0", "exitfail"
    corners_result                 \* the tuple returned, CornersNoResult before

\* The variables of _estimate_camera_poses, and those of the other stages.
solveVars == << indices_frame_camera, frame_reps, calobject_poses_local_Rt_cf,
                Ncameras, pc, err, shared_frames, cost_to_node, from_idx, heap,
                Rt_0c, result, pop_log, align_log, pairwise_log >>

monoVars == << models_or_intrinsics, observations, observations_copy, mono_pc, mono_err,
               Rt_cf_all, solve_log, reproject_log >>

jointVars == << extrinsics_Rt_fromref, joint_pc, joint_err, iframe_current,
                i_observation_framestart, frames_rt_toref, joint_log >>

seedVars == << imagersizes, intrinsics_data, seed_pc, seed_result >>

cornerVars == << corners_args, corners_input, corners_pc, corners_err, corners_i,
                 context, mapping, files_per_camera, tmpfile, cache_file,
                 corners_output, corners_result >>

vars == << solveVars, i_observation, monoVars, jointVars, seedVars, cornerVars >>

\* ------------------------------------------------------------------ bounds

\* Longest explicit index list, its frame indices and its camera indices.
MaxObs == 4
NFrames == 2
NCams == 3
\* Cameras and edges of the connectivity graphs of SpecGraph.
NCamsG == 4
MaxEdges == 4
\* Rows and cameras of the lists of SpecMono.
MaxObsM == 2
NCamsM == 2
\* Rows, frame indices and camera indices of the lists of SpecJoint.
MaxObsJ == 4
NFramesJ == 3
NCamsJ == 3
\* Rows of the lists of SpecSeed.
MaxObsS == 3

\* Shared-frame counts of one camera pair per frame run, and the frames a run
\* stands for: counts up to 120000 on both sides of the edge-cost constant.
SharedChoices == {0, 1, 2}
RepChoices == {1, 40000, 60000}

\* ------------------------------------------------------------------- poses

Poses == [a : {1, 6}, b : 0..6]

NoPose == [a |-> 0, b |-> 0]

identity_Rt == [a |-> 1, b |-> 0]

transform_point(Rt, x) == (Rt.a * x + Rt.b) % 7

\* compose_Rt(Rt0, Rt1) transforms by Rt1 first, then by Rt0.
compose_Rt(Rt0, Rt1) ==
    [a |-> (Rt0.a * Rt1.a) % 7, b |-> (Rt0.a * Rt1.b + Rt0.b) % 7]

invert_Rt(Rt) == [a |-> Rt.a, b |-> (49 - Rt.a * Rt.b) % 7]

\* The points of the calibration object, in its own coordinates.
ref_calibration_object == << 0, 1 >>

\* The pose Rt with A[i] = Rt(B[i]) for every i. It fails on clouds that do
\* not determine one pose, empty clouds among them.
align_procrustes_points_Rt01(A, B) ==
    LET fits == { g \in Poses :
                    \A i \in 1..Len(A) : transform_point(g, B[i]) = A[i] }
    IN  IF Len(A) > 0 /\ Len(A) = Len(B) /\ Cardinality(fits) = 1
        THEN [ok |-> TRUE,  Rt |-> CHOOSE g \in fits : TRUE]
        ELSE [ok |-> FALSE, Rt |-> NoPose]

\* ------------------------------------------------------------------- input

Nobservations == Len(indices_frame_camera)

Row(i) == indices_frame_camera[i + 1]

iframe(i) == Row(i)[1]

icam(i) == Row(i)[2]

SetMax(S) == CHOOSE x \in S : \A y \in S : y <= x

NcamerasOf(rows) == SetMax({ rows[i][2] : i \in 1..Len(rows) }) + 1

Cameras == 0..Ncameras - 1

\* Ground truth of a scene: the pose of camera c from the reference, and of
\* the calibration object in the reference at frame f. The local pose of an
\* observation is their composition: the data is free of noise.
CamPoseTrue(c) == [a |-> IF c % 2 = 1 THEN 6 ELSE 1, b |-> (c + 1) % 7]

FramePoseTrue(f) == [a |-> IF f % 2 = 0 THEN 6 ELSE 1, b |-> f % 7]

LocalPosesOf(rows) ==
    [i \in 1..Len(rows) |->
        compose_Rt(CamPoseTrue(rows[i][2]), FramePoseTrue(rows[i][1]))]

\* Rows of the canonical index list of a connectivity graph: pair k of
\* cameras, in lexicographic order, is seen together and alone in w[k] runs.
RECURSIVE PairsFrom(_, _)
PairsFrom(i, j) ==
    IF i >= NCamsG - 1 THEN << >>
    ELSE IF j >= NCamsG THEN PairsFrom(i + 1, i + 2)
    ELSE << << i, j >> >> \o PairsFrom(i, j + 1)

PairList == PairsFrom(0, 1)

RECURSIVE RunsOf(_, _, _)
RunsOf(p, fid, n) ==
    IF n = 0 THEN << >>
    ELSE << << fid, p[1] >>, << fid, p[2] >> >> \o RunsOf(p, fid + 1, n - 1)

RECURSIVE GraphRows(_, _)
GraphRows(w, k) ==
    IF k > Len(PairList) THEN << >>
    ELSE RunsOf(PairList[k], 3 * k, w[k]) \o GraphRows(w, k + 1)

\* ----------------------------------------------- compute_connectivity_matrix

ZeroMatrix == [x \in Cameras |-> [y \in Cameras |-> 0]]

\* A bug: one of the two increments only.
add_pair_onesided(cc, ic0, ic1) ==
    [cc EXCEPT ![icam(ic0)][icam(ic1)] = @ + frame_reps]

\* The body of the loops of finish_frame() for the rows ic0 < ic1 of one run:
\* the two increments, each by 1 for every frame the run stands for.
add_pair(cc, ic0, ic1) ==
    LET cc1 == [cc EXCEPT ![icam(ic0)][icam(ic1)] = @ + frame_reps]
    IN  [cc1 EXCEPT ![icam(ic1)][icam(ic0)] = @ + frame_reps]

\* for ic0 in range(i0, i1): for ic1 in range(ic0+1, i1+1)
RECURSIVE finish_frame_loop(_, _, _, _)
finish_frame_loop(cc, ic0, ic1, i1) ==
    IF ic0 >= i1 THEN cc
    ELSE IF ic1 > i1 THEN finish_frame_loop(cc, ic0 + 1, ic0 + 2, i1)
    ELSE finish_frame_loop(add_pair(cc, ic0, ic1), ic0, ic1 + 1, i1)

finish_frame(cc, i0, i1) == finish_frame_loop(cc, i0, i0 + 1, i1)

\* A bug: a frame index below the current one is skipped, not refused.
RECURSIVE connectivity_scan_nocheck(_, _)
connectivity_scan_nocheck(i, st) ==
    IF i = Nobservations THEN st
    ELSE LET f == iframe(i)
         IN  IF f > st.f_current
             THEN connectivity_scan_nocheck(i + 1,
                    [f_current       |-> f,
                     i_start_current |-> i,
                     cc |-> IF st.i_start_current >= 0
                            THEN finish_frame(st.cc, st.i_start_current, i - 1)
                            ELSE st.cc,
                     raised |-> FALSE])
             ELSE connectivity_scan_nocheck(i + 1, st)

\* The loop over the rows; st is the loop's state.
RECURSIVE connectivity_scan(_, _)
connectivity_scan(i, st) ==
    IF i = Nobservations THEN st
    ELSE LET f == iframe(i)
         IN  IF f < st.f_current
             THEN [st EXCEPT !.raised = TRUE]
             ELSE IF f > st.f_current
             THEN connectivity_scan(i + 1,
                    [f_current       |-> f,
                     i_start_current |-> i,
                     cc |-> IF st.i_start_current >= 0
                            THEN finish_frame(st.cc, st.i_start_current, i - 1)
                            ELSE st.cc,
                     raised |-> FALSE])
             ELSE connectivity_scan(i + 1, st)

\* A bug: the run that ends the list is never finished.
compute_connectivity_matrix_nolast ==
    LET st == connectivity_scan(0, [f_current |-> -1, i_start_current |-> -1,
                                    cc |-> ZeroMatrix, raised |-> FALSE])
    IN  [raised |-> st.raised, camera_connectivity |-> st.cc]

compute_connectivity_matrix ==
    LET st == connectivity_scan(0, [f_current |-> -1, i_start_current |-> -1,
                                    cc |-> ZeroMatrix, raised |-> FALSE])
    IN  IF st.raised
        THEN [raised |-> TRUE, camera_connectivity |-> st.cc]
        ELSE [raised |-> FALSE,
              camera_connectivity |->
                  finish_frame(st.cc, st.i_start_current, Nobservations - 1)]

\* ------------------------------------------------------- compute_pairwise_Rt

\* The object's points in the coordinates of the camera whose local pose is Rt.
object_points(Rt) ==
    [k \in 1..Len(ref_calibration_object) |->
        transform_point(Rt, ref_calibration_object[k])]

\* The loop over the rows, for icam_to < icam_from; st is the loop's state.
RECURSIVE pairwise_scan(_, _, _, _)
pairwise_scan(icam_to, icam_from, i, st) ==
    IF i = Nobservations THEN st
    ELSE
    LET iframe_this == iframe(i)
        icam_this   == icam(i)
        s1 == IF iframe_this # st.iframe_last
              THEN [st EXCEPT !.Rt0 = NoPose, !.Rt1 = NoPose,
                              !.iframe_last = iframe_this]
              ELSE st
    IN  IF icam_this = icam_to
        THEN IF s1.Rt0 # NoPose
             THEN [s1 EXCEPT !.raised = TRUE]
             ELSE pairwise_scan(icam_to, icam_from, i + 1,
                    [s1 EXCEPT !.Rt0 = calobject_poses_local_Rt_cf[i + 1]])
        ELSE IF icam_this = icam_from
        THEN IF s1.Rt0 = NoPose
             THEN pairwise_scan(icam_to, icam_from, i + 1, s1)
             ELSE IF s1.Rt1 # NoPose
             THEN [s1 EXCEPT !.raised = TRUE]
             ELSE LET Rt1 == calobject_poses_local_Rt_cf[i + 1]
                  IN  pairwise_scan(icam_to, icam_from, i + 1,
                        [s1 EXCEPT !.Rt1 = Rt1,
                                   !.A = @ \o object_points(s1.Rt0),
                                   !.B = @ \o object_points(Rt1),
                                   !.nframes = @ + frame_reps])
        ELSE pairwise_scan(icam_to, icam_from, i + 1, s1)

\* compute_pairwise_Rt for icam_to <= icam_from. calls lists the clouds
\* handed to the alignment.
pairwise_Rt_ordered(icam_to, icam_from) ==
    IF icam_to = icam_from
    THEN [err |-> "SameCamera", Rt |-> NoPose, calls |-> << >>]
    ELSE
    LET st == pairwise_scan(icam_to, icam_from, 0,
                [iframe_last |-> -1, Rt0 |-> NoPose, Rt1 |-> NoPose,
                 A |-> << >>, B |-> << >>, nframes |-> 0, raised |-> FALSE])
        al == align_procrustes_points_Rt01(st.A, st.B)
        call == [icam_to |-> icam_to, icam_from |-> icam_from,
                 nframes |-> st.nframes, npoints |-> Len(st.A) * frame_reps]
    IN  IF st.raised
        THEN [err |-> "ConflictingObservation", Rt |-> NoPose, calls |-> << >>]
        ELSE IF ~al.ok
        THEN [err |-> "DegenerateGeometry", Rt |-> NoPose, calls |-> << call >>]
        ELSE [err |-> "", Rt |-> al.Rt, calls |-> << call >>]

\* A bug: the transform of the opposite order is not inverted.
compute_pairwise_Rt_noinvert(icam_to, icam_from) ==
    IF icam_to > icam_from
    THEN pairwise_Rt_ordered(icam_from, icam_to)
    ELSE pairwise_Rt_ordered(icam_to, icam_from)

compute_pairwise_Rt(icam_to, icam_from) ==
    IF icam_to > icam_from
    THEN LET r == pairwise_Rt_ordered(icam_from, icam_to)
         IN  IF r.err # "" THEN r ELSE [r EXCEPT !.Rt = invert_Rt(r.Rt)]
    ELSE pairwise_Rt_ordered(icam_to, icam_from)

\* ------------------------------------------------------------------- heapq
\* Python's heapq on a list of nodes ordered by Node.__lt__, that is by
\* cost_to_node; positions are Python's, h[pos + 1] is heap[pos].

NoCost == -1

RECURSIVE siftdown(_, _, _, _, _)
siftdown(cost, h, startpos, pos, newitem) ==
    IF pos > startpos
    THEN LET parentpos == (pos - 1) \div 2
             parent    == h[parentpos + 1]
         IN  IF cost[newitem] < cost[parent]
             THEN siftdown(cost, [h EXCEPT ![pos + 1] = parent],
                           startpos, parentpos, newitem)
             ELSE [h EXCEPT ![pos + 1] = newitem]
    ELSE [h EXCEPT ![pos + 1] = newitem]

RECURSIVE siftup_loop(_, _, _, _, _)
siftup_loop(cost, h, startpos, pos, newitem) ==
    LET childpos == 2 * pos + 1
        rightpos == childpos + 1
        endpos   == Len(h)
    IN  IF childpos < endpos
        THEN LET c == IF rightpos < endpos
                         /\ ~ (cost[h[childpos + 1]] < cost[h[rightpos + 1]])
                      THEN rightpos ELSE childpos
             IN  siftup_loop(cost, [h EXCEPT ![pos + 1] = h[c + 1]],
                             startpos, c, newitem)
        ELSE siftdown(cost, [h EXCEPT ![pos + 1] = newitem],
                      startpos, pos, newitem)

siftup(cost, h, pos) == siftup_loop(cost, h, pos, pos, h[pos + 1])

heappush(cost, h, item) == siftdown(cost, Append(h, item), 0, Len(h), item)

heappop(cost, h) ==
    LET lastelt == h[Len(h)]
        rest    == SubSeq(h, 1, Len(h) - 1)
    IN  IF Len(rest) > 0
        THEN [item |-> rest[1],
              heap |-> siftup(cost, [rest EXCEPT ![1] = lastelt], 0)]
        ELSE [item |-> lastelt, heap |-> << >>]

RECURSIVE heapify_loop(_, _, _)
heapify_loop(cost, h, i) ==
    IF i < 0 THEN h ELSE heapify_loop(cost, siftup(cost, h, i), i - 1)

heapify(cost, h) == heapify_loop(cost, h, (Len(h) \div 2) - 1)

\* -------------------------------------------------------------------- Node
\* S is the search's working state: [cost_to_node, from_idx, heap, Rt_0c,
\* err, calls, pairs]; pairs lists the calls of compute_pairwise_Rt.

EdgeCostK == 100000

compute_edge_cost(shared) == EdgeCostK - shared

\* Node.visited() and Node.seen()
visited(S, camera_idx) == camera_idx = 0 \/ S.Rt_0c[camera_idx] # NoPose

\* A bug: no node is known to have been in the heap.
seen_never(S, camera_idx) == FALSE

seen(S, camera_idx) == S.cost_to_node[camera_idx] # NoCost

\* A bug: the two poses composed in the wrong order.
finish_swapped(S, camera_idx) ==
    IF camera_idx = 0 THEN S
    ELSE
    LET f     == S.from_idx[camera_idx]
        r     == compute_pairwise_Rt(f, camera_idx)
        S1    == [S EXCEPT !.calls = @ \o r.calls,
                           !.pairs = Append(@, [icam_to   |-> f,
                                                icam_from |-> camera_idx])]
    IN  IF r.err # "" THEN [S1 EXCEPT !.err = r.err]
        ELSE IF f = 0
        THEN [S1 EXCEPT !.Rt_0c[camera_idx] = r.Rt]
        ELSE [S1 EXCEPT !.Rt_0c[camera_idx] = compose_Rt(r.Rt, S.Rt_0c[f])]

\* Node.finish(): the pose of camera_idx in camera 0 through its predecessor.
finish(S, camera_idx) ==
    IF camera_idx = 0 THEN S
    ELSE
    LET f     == S.from_idx[camera_idx]
        r     == compute_pairwise_Rt(f, camera_idx)
        S1    == [S EXCEPT !.calls = @ \o r.calls,
                           !.pairs = Append(@, [icam_to   |-> f,
                                                icam_from |-> camera_idx])]
    IN  IF r.err # "" THEN [S1 EXCEPT !.err = r.err]
        ELSE IF f = 0
        THEN [S1 EXCEPT !.Rt_0c[camera_idx] = r.Rt]
        ELSE [S1 EXCEPT !.Rt_0c[camera_idx] = compose_Rt(S.Rt_0c[f], r.Rt)]

\* A bug: a neighbor that shares no frame is not skipped.
visit_neighbor_noskip(S, camera_idx, neighbor_idx) ==
    IF neighbor_idx = camera_idx
    THEN S
    ELSE IF visited(S, neighbor_idx) THEN S
    ELSE
    LET cost_edge == compute_edge_cost(shared_frames[neighbor_idx][camera_idx])
        cost_to_neighbor_via_node == S.cost_to_node[camera_idx] + cost_edge
        updated == [S EXCEPT !.cost_to_node[neighbor_idx] = cost_to_neighbor_via_node,
                             !.from_idx[neighbor_idx]     = camera_idx]
    IN  IF ~ (cost_edge > 0) THEN [S EXCEPT !.err = "AssertionError"]
        ELSE IF ~ seen(S, neighbor_idx)
        THEN [updated EXCEPT !.heap = heappush(updated.cost_to_node, S.heap, neighbor_idx)]
        ELSE IF cost_to_neighbor_via_node < S.cost_to_node[neighbor_idx]
        THEN [updated EXCEPT !.heap = heapify(updated.cost_to_node, S.heap)]
        ELSE S

\* A bug: the predecessor of a neighbor is not recorded.
visit_neighbor_nofrom(S, camera_idx, neighbor_idx) ==
    IF neighbor_idx = camera_idx \/ shared_frames[neighbor_idx][camera_idx] = 0
    THEN S
    ELSE IF visited(S, neighbor_idx) THEN S
    ELSE
    LET cost_edge == compute_edge_cost(shared_frames[neighbor_idx][camera_idx])
        cost_to_neighbor_via_node == S.cost_to_node[camera_idx] + cost_edge
        updated == [S EXCEPT !.cost_to_node[neighbor_idx] = cost_to_neighbor_via_node]
    IN  IF ~ (cost_edge > 0) THEN [S EXCEPT !.err = "AssertionError"]
        ELSE IF ~ seen(S, neighbor_idx)
        THEN [updated EXCEPT !.heap = heappush(updated.cost_to_node, S.heap, neighbor_idx)]
        ELSE IF cost_to_neighbor_via_node < S.cost_to_node[neighbor_idx]
        THEN [updated EXCEPT !.heap = heapify(updated.cost_to_node, S.heap)]
        ELSE S

\* The body of the loop of Node.visit() for one neighbor.
visit_neighbor(S, camera_idx, neighbor_idx) ==
    IF neighbor_idx = camera_idx \/ shared_frames[neighbor_idx][camera_idx] = 0
    THEN S
    ELSE IF visited(S, neighbor_idx) THEN S
    ELSE
    LET cost_edge == compute_edge_cost(shared_frames[neighbor_idx][camera_idx])
        cost_to_neighbor_via_node == S.cost_to_node[camera_idx] + cost_edge
        updated == [S EXCEPT !.cost_to_node[neighbor_idx] = cost_to_neighbor_via_node,
                             !.from_idx[neighbor_idx]     = camera_idx]
    IN  IF ~ (cost_edge > 0) THEN [S EXCEPT !.err = "AssertionError"]
        ELSE IF ~ seen(S, neighbor_idx)
        THEN [updated EXCEPT !.heap = heappush(updated.cost_to_node, S.heap, neighbor_idx)]
        ELSE IF cost_to_neighbor_via_node < S.cost_to_node[neighbor_idx]
        THEN [updated EXCEPT !.heap = heapify(updated.cost_to_node, S.heap)]
        ELSE S

RECURSIVE visit_loop(_, _, _)
visit_loop(S, camera_idx, neighbor_idx) ==
    IF neighbor_idx = Ncameras \/ S.err # "" THEN S
    ELSE visit_loop(visit_neighbor(S, camera_idx, neighbor_idx),
                    camera_idx, neighbor_idx + 1)

\* Node.visit()
visit(S, camera_idx) ==
    LET S1 == finish(S, camera_idx)
    IN  IF S1.err # "" THEN S1 ELSE visit_loop(S1, camera_idx, 0)

\* -------------------------- estimate_monocular_calobject_poses_Rt_tocam
\* The pose stages see the calibration object through the two points of
\* ref_calibration_object; this stage sees it as the grid of the pixel
\* observations of one row, a sequence of points <<x, y, weight>>, and keeps
\* the forward component z of the translation next to the pose: a row of
\* Rt_cf_all is [a, b, z].

\* Fewest points the pose solver accepts.
MinPnPPoints == 4

focal_estimate == 1

\* The lens models: the pinhole, a model with distortion and the core
\* (fx, fy, cx, cy), and a model without the core.
LensModelNames == { "LENSMODEL_PINHOLE", "LENSMODEL_OPENCV4", "LENSMODEL_CORELESS" }

lensmodel_metadata(m) == [has_core |-> m # "LENSMODEL_CORELESS"]

lensmodels == [c \in 1..Len(models_or_intrinsics) |-> models_or_intrinsics[c][1]]

intrinsics_data_of == [c \in 1..Len(models_or_intrinsics) |-> models_or_intrinsics[c][2]]

\* A bug: only the models of the cameras that have an observation are checked.
all_have_core_observed ==
    \A i \in 0..Nobservations - 1 :
        icam(i) < Len(lensmodels) =>
            lensmodel_metadata(lensmodels[icam(i) + 1]).has_core

\* all([mrcal.lensmodel_metadata(m)['has_core'] for m in lensmodels])
all_have_core ==
    \A c \in 1..Len(lensmodels) : lensmodel_metadata(lensmodels[c]).has_core

\* The ray of a pixel: off the centre pixel, by the focal length; a lens with
\* distortion images a ray nearer to the centre than the pinhole does.
unproject(q, lensmodel, intrinsics) ==
    LET vx == (q[1] - intrinsics[3]) \div intrinsics[1]
        vy == (q[2] - intrinsics[4]) \div intrinsics[2]
    IN  IF lensmodel = "LENSMODEL_PINHOLE" THEN << vx, vy >>
        ELSE << 2 * vx, 2 * vy >>

\* mrcal.project(v, 'LENSMODEL_PINHOLE', core)
project_pinhole(v, core) ==
    << v[1] * core[1] + core[3], v[2] * core[2] + core[4] >>

\* A bug: every row is reprojected with the lens model of the camera of row 0.
reprojected_firstcam(i_obs) ==
    LET c == icam(0) + 1
    IN  [k \in 1..Len(observations_copy[i_obs + 1]) |->
            LET pt == observations_copy[i_obs + 1][k]
                q  == project_pinhole(
                        unproject(<< pt[1], pt[2] >>, lensmodels[c], intrinsics_data_of[c]),
                        intrinsics_data_of[c])
            IN  << q[1], q[2], pt[3] >>]

\* The points of row i_obs reprojected to the pinhole model; the weight stays.
reprojected(i_obs) ==
    LET c == icam(i_obs) + 1
    IN  [k \in 1..Len(observations_copy[i_obs + 1]) |->
            LET pt == observations_copy[i_obs + 1][k]
                q  == project_pinhole(
                        unproject(<< pt[1], pt[2] >>, lensmodels[c], intrinsics_data_of[c]),
                        intrinsics_data_of[c])
            IN  << q[1], q[2], pt[3] >>]

\* The points of the grid, by their index.
full_object(i_obs) == [k \in 1..Len(observations_copy[i_obs + 1]) |-> k - 1]

\* A bug: the y coordinate is not looked at.
is_valid_point_noy(pt) == pt[1] >= 0 /\ pt[3] >= 0

\* i = (d[..., 0] >= 0) * (d[..., 1] >= 0) * (d[..., 2] >= 0)
is_valid_point(pt) == pt[1] >= 0 /\ pt[2] >= 0 /\ pt[3] >= 0

\* d = d[i,:] of row i_obs: the rows <<x, y, weight, object point>> that are
\* valid, in the order of the grid.
valid_rows(i_obs) ==
    LET d == [k \in 1..Len(observations_copy[i_obs + 1]) |->
                << observations_copy[i_obs + 1][k][1],
                   observations_copy[i_obs + 1][k][2],
                   observations_copy[i_obs + 1][k][3],
                   full_object(i_obs)[k] >>]
    IN  SelectSeq(d, is_valid_point)

\* A rotation vector is 0 for no rotation and 1 for the half turn.
rvec_of(Rt) == IF Rt.a = 1 THEN 0 ELSE 1

\* mrcal.Rt_from_rt(nps.glue(rvec.ravel(), tvec.ravel(), axis=-1)); the
\* translation is << lateral, forward >>.
Rt_from_rt(rvec, tvec) ==
    [a |-> IF rvec = 0 THEN 1 ELSE 6, b |-> tvec[1], z |-> tvec[2]]

\* mrcal.rt_from_Rt
rt_from_Rt(Rt) == << rvec_of(Rt), Rt.b >>

\* -tvec
neg_tvec(tvec) == << (7 - tvec[1]) % 7, 0 - tvec[2] >>

\* A bug: a forward component of 0 passes.
behind_camera_strict(tvec) == tvec[2] < 0

\* if tvec[2] <= 0
behind_camera(tvec) == tvec[2] <= 0

NoGuess == [useExtrinsicGuess |-> FALSE, rvec |-> 0, tvec |-> << 0, 0 >>]

\* What cv2.solvePnP may answer for row i_obs. With too few points it raises.
\* Else it fails, or it finds the pose the scene was made with or the false
\* minimum that mirrors it, in front of the camera (z = 1), behind it
\* (z = -1) or in its plane (z = 0). Inside make_seed_pinhole the last case
\* is left out.
solvePnP(i_obs, ref_object, observations_local, guess) ==
    LET truth   == LocalPosesOf(indices_frame_camera)[i_obs + 1]
        flipped == compose_Rt([a |-> 6, b |-> 0], truth)
        found   == { << truth, 1 >>, << flipped, 1 >>, << flipped, -1 >> }
                     \cup (IF seed_pc = "idle" THEN { << truth, 0 >> } ELSE {})
    IN  IF Len(ref_object) < MinPnPPoints
        THEN { [raised |-> TRUE, result |-> FALSE, rvec |-> 0, tvec |-> << 0, 0 >>] }
        ELSE { [raised |-> FALSE, result |-> FALSE, rvec |-> 0, tvec |-> << 0, 0 >>] }
             \cup { [raised |-> FALSE, result |-> TRUE,
                     rvec |-> rvec_of(o[1]), tvec |-> << o[1].b, o[2] >>] : o \in found }

\* np.zeros( (Nobservations, 4, 3) )
ZeroPose == [a |-> 0, b |-> 0, z |-> 0]

\* ---------------------------------------------- estimate_joint_frame_poses
\* calobject_Rt_camera_frame is calobject_poses_local_Rt_cf. Python's
\* extrinsics_Rt_fromref[icam-1] is extrinsics_Rt_fromref[icam] here.

\* A bug: the extrinsics are taken as they are, not inverted.
Rt_ref_cam_notinverted == extrinsics_Rt_fromref

\* Rt_ref_cam = mrcal.invert_Rt( extrinsics_Rt_fromref )
Rt_ref_cam ==
    [c \in 1..Len(extrinsics_Rt_fromref) |-> invert_Rt(extrinsics_Rt_fromref[c])]

\* A bug: the pose from the reference is used where the pose to it is meant.
Rt_ref_frame__single_observation_fromref(i_obs) ==
    IF icam(i_obs) = 0 THEN calobject_poses_local_Rt_cf[i_obs + 1]
    ELSE compose_Rt(extrinsics_Rt_fromref[icam(i_obs)],
                    calobject_poses_local_Rt_cf[i_obs + 1])

\* Transform from the board coords to the reference coords.
Rt_ref_frame__single_observation(i_obs) ==
    IF icam(i_obs) = 0 THEN calobject_poses_local_Rt_cf[i_obs + 1]
    ELSE compose_Rt(Rt_ref_cam[icam(i_obs)],
                    calobject_poses_local_Rt_cf[i_obs + 1])

\* x / n in the field of the points.
field_div(x, n) == CHOOSE q \in 0..6 : (q * n) % 7 = x % 7

\* for i_observation in range(i_observation0, i_observation1):
\*     sum_obj_unproj += mrcal.transform_point_Rt(Rt, obj)
RECURSIVE sum_obj_unproj(_, _, _)
sum_obj_unproj(i_obs, i_observation1, acc) ==
    IF i_obs >= i_observation1 THEN acc
    ELSE sum_obj_unproj(i_obs + 1, i_observation1,
            [k \in 1..Len(acc) |->
                (acc[k] + object_points(Rt_ref_frame__single_observation(i_obs))[k]) % 7])

\* A bug: the last observation of the range is left out of the sum.
mean_obj_ref_short(i_observation0, i_observation1) ==
    LET obj == ref_calibration_object
        s   == sum_obj_unproj(i_observation0, i_observation1 - 1,
                              [k \in 1..Len(obj) |-> 0])
    IN  [k \in 1..Len(obj) |-> field_div(s[k], i_observation1 - i_observation0)]

\* mean_obj_ref = sum_obj_unproj / (i_observation1 - i_observation0)
mean_obj_ref(i_observation0, i_observation1) ==
    LET obj == ref_calibration_object
        s   == sum_obj_unproj(i_observation0, i_observation1,
                              [k \in 1..Len(obj) |-> 0])
    IN  [k \in 1..Len(obj) |-> field_div(s[k], i_observation1 - i_observation0)]

\* Some row of the range is of a camera the extrinsics have no entry for.
range_index_error(i_observation0, i_observation1) ==
    \E i \in i_observation0..i_observation1 - 1 :
        icam(i) > Len(extrinsics_Rt_fromref)

\* Rt_ref_frame(): the pose of the frame of the rows
\* i_observation0..i_observation1-1; call is what the alignment was given.
Rt_ref_frame(i_observation0, i_observation1) ==
    LET range == [i_observation0 |-> i_observation0,
                  i_observation1 |-> i_observation1]
    IN  IF range_index_error(i_observation0, i_observation1)
        THEN [err |-> "IndexError", Rt |-> NoPose,
              call |-> [range |-> range, aligned |-> FALSE, A |-> << >>, B |-> << >>]]
        ELSE IF i_observation1 - i_observation0 = 1
        THEN [err |-> "", Rt |-> Rt_ref_frame__single_observation(i_observation0),
              call |-> [range |-> range, aligned |-> FALSE, A |-> << >>, B |-> << >>]]
        ELSE LET m  == mean_obj_ref(i_observation0, i_observation1)
                 al == align_procrustes_points_Rt01(m, ref_calibration_object)
             IN  [err |-> IF al.ok THEN "" ELSE "DegenerateGeometry",
                  Rt |-> al.Rt,
                  call |-> [range |-> range, aligned |-> TRUE,
                            A |-> m, B |-> ref_calibration_object]]

\* Most images of a corners file.
MaxImages == 4

\* ------------------------------------------------ the stages before a call

NoResult == [returned |-> FALSE, Rt |-> << >>]

MonoIdle ==
    /\ models_or_intrinsics = << >>
    /\ observations = << >>
    /\ observations_copy = << >>
    /\ mono_pc = "idle"
    /\ mono_err = ""
    /\ Rt_cf_all = << >>
    /\ solve_log = << >>
    /\ reproject_log = << >>

JointIdle ==
    /\ extrinsics_Rt_fromref = << >>
    /\ joint_pc = "idle"
    /\ joint_err = ""
    /\ iframe_current = -1
    /\ i_observation_framestart = -1
    /\ frames_rt_toref = << >>
    /\ joint_log = << >>

NoSeed == [returned |-> FALSE, intrinsics_data |-> << >>,
           extrinsics_rt_fromref |-> << >>, frames_rt_toref |-> << >>]

SeedIdle ==
    /\ imagersizes = << >>
    /\ intrinsics_data = << >>
    /\ seed_pc = "idle"
    /\ seed_result = NoSeed

NoFile == [exists |-> FALSE, complete |-> FALSE, blocks |-> << >>]

\* context['f'] = '': the name of no image
NoName == [frameno |-> -1, cam |-> -1]

context0 == [f |-> NoName, igrid |-> 0, Nvalidpoints |-> 0]

CornersNoResult ==
    [returned |-> FALSE, observations |-> << >>,
     indices_frame_camera |-> << >>, files_sorted |-> << >>]

CornersIdle ==
    /\ corners_args = << >>
    /\ corners_input = << >>
    /\ corners_pc = "idle"
    /\ corners_err = ""
    /\ corners_i = 0
    /\ context = context0
    /\ mapping = << >>
    /\ files_per_camera = << >>
    /\ tmpfile = NoFile
    /\ cache_file = NoFile
    /\ corners_output = "none"
    /\ corners_result = CornersNoResult

\* _estimate_camera_poses not entered: the index list and the local poses
\* are there, the rest is not.
SolveIdle(rows, poses) ==
    /\ indices_frame_camera = rows
    /\ frame_reps = 1
    /\ calobject_poses_local_Rt_cf = poses
    /\ Ncameras = 0
    /\ pc = "idle"
    /\ err = ""
    /\ shared_frames = << >>
    /\ cost_to_node = << >>
    /\ from_idx = << >>
    /\ heap = << >>
    /\ Rt_0c = << >>
    /\ result = NoResult
    /\ pop_log = << >>
    /\ align_log = << >>
    /\ pairwise_log = << >>

\* ----------------------------------------------------------------- actions

SearchState ==
    [cost_to_node |-> cost_to_node, from_idx |-> from_idx, heap |-> heap,
     Rt_0c |-> Rt_0c, err |-> "", calls |-> << >>, pairs |-> << >>]

\* The working state S becomes the state; an exception ends the solve.
Commit(S, pc_next) ==
    /\ cost_to_node' = S.cost_to_node
    /\ from_idx'     = S.from_idx
    /\ heap'         = S.heap
    /\ Rt_0c'        = S.Rt_0c
    /\ align_log'    = align_log \o S.calls
    /\ pairwise_log' = pairwise_log \o S.pairs
    /\ err'          = S.err
    /\ pc'           = IF S.err # "" THEN "failed" ELSE pc_next

\* The state on entry of _estimate_camera_poses, for the rows given.
Entry(rows, reps) ==
    /\ indices_frame_camera = rows
    /\ frame_reps = reps
    /\ calobject_poses_local_Rt_cf = LocalPosesOf(rows)
    /\ Ncameras = NcamerasOf(rows)
    /\ pc = "start"
    /\ err = ""
    /\ shared_frames = ZeroMatrix
    /\ cost_to_node = [c \in Cameras |-> NoCost]
    /\ from_idx = [c \in Cameras |-> -1]
    /\ heap = << >>
    /\ Rt_0c = [c \in 1..Ncameras - 1 |-> NoPose]
    /\ result = NoResult
    /\ pop_log = << >>
    /\ align_log = << >>
    /\ pairwise_log = << >>
    /\ i_observation = 0
    /\ MonoIdle
    /\ JointIdle
    /\ SeedIdle
    /\ CornersIdle

\* shared_frames = compute_connectivity_matrix(), then the nodes are made.
ComputeConnectivity ==
    /\ pc = "start"
    /\ LET m == compute_connectivity_matrix
       IN  /\ shared_frames' = m.camera_connectivity
           /\ err' = IF m.raised THEN "NonMonotonicFrames" ELSE ""
           /\ pc'  = IF m.raised THEN "failed" ELSE "root"
    /\ cost_to_node' = [c \in Cameras |-> IF c = 0 THEN 0 ELSE NoCost]
    /\ UNCHANGED << indices_frame_camera, frame_reps, calobject_poses_local_Rt_cf, Ncameras,
                    from_idx, heap, Rt_0c, result, pop_log, align_log,
                    pairwise_log >>
    /\ UNCHANGED << i_observation, monoVars, jointVars, seedVars, cornerVars >>

\* nodes[0].visit()
VisitRoot ==
    /\ pc = "root"
    /\ Commit(visit(SearchState, 0), "search")
    /\ UNCHANGED << indices_frame_camera, frame_reps, calobject_poses_local_Rt_cf, Ncameras,
                    shared_frames, result, pop_log >>
    /\ UNCHANGED << i_observation, monoVars, jointVars, seedVars, cornerVars >>

\* One turn of the loop: node_top = heappop(heap); node_top.visit()
PopVisit ==
    /\ pc = "search"
    /\ heap # << >>
    /\ LET top == heappop(cost_to_node, heap)
       IN  /\ pop_log' = Append(pop_log, << top.item, cost_to_node[top.item] >>)
           /\ Commit(visit([SearchState EXCEPT !.heap = top.heap], top.item),
                     "search")
    /\ UNCHANGED << indices_frame_camera, frame_reps, calobject_poses_local_Rt_cf, Ncameras,
                    shared_frames, result >>
    /\ UNCHANGED << i_observation, monoVars, jointVars, seedVars, cornerVars >>

\* The heap is empty: raise if a camera has no pose, else return the poses.
Return ==
    /\ pc = "search"
    /\ heap = << >>
    /\ IF \E c \in 1..Ncameras - 1 : Rt_0c[c] = NoPose
       THEN /\ err' = "DisconnectedCameraNetwork"
            /\ pc' = "failed"
            /\ result' = result
       ELSE /\ err' = err
            /\ pc' = "done"
            /\ result' = [returned |-> TRUE, Rt |-> Rt_0c]
    /\ UNCHANGED << indices_frame_camera, frame_reps, calobject_poses_local_Rt_cf, Ncameras,
                    shared_frames, cost_to_node, from_idx, heap, Rt_0c,
                    pop_log, align_log, pairwise_log >>
    /\ UNCHANGED << i_observation, monoVars, jointVars, seedVars, cornerVars >>

Next == ComputeConnectivity \/ VisitRoot \/ PopVisit \/ Return

\* Every index list of at most MaxObs rows, one frame per run.
Init ==
    \E n \in 1..MaxObs :
        \E rows \in [1..n -> (0..NFrames - 1) \X (0..NCams - 1)] :
            Entry(rows, 1)

Spec == Init /\ [][Next]_vars

\* The canonical list of every connectivity graph of NCamsG cameras with at
\* most MaxEdges edges, each run standing for 1, 40000 or 60000 frames.
InitGraph ==
    \E w \in [1..Len(PairList) -> SharedChoices] :
        \E reps \in RepChoices :
            /\ Cardinality({ k \in 1..Len(PairList) : w[k] > 0 }) \in 1..MaxEdges
            /\ Entry(GraphRows(w, 1), reps)

SpecGraph == InitGraph /\ [][Next]_vars

\* ------------------- actions of estimate_monocular_calobject_poses_Rt_tocam

\* The lens models are checked, the observations are copied.
MonoCheckCore ==
    /\ mono_pc = "start"
    /\ IF ~ all_have_core
       THEN /\ mono_err' = "UnsupportedLensModel"
            /\ mono_pc' = "failed"
            /\ observations_copy' = observations_copy
       ELSE /\ mono_err' = mono_err
            /\ mono_pc' = "reproject"
            /\ observations_copy' = observations
    /\ i_observation' = 0
    /\ UNCHANGED << models_or_intrinsics, observations, Rt_cf_all, solve_log,
                    reproject_log >>
    /\ UNCHANGED << solveVars, jointVars, seedVars, cornerVars >>

\* A bug: the reprojected pixels are written to the caller's array too.
MonoReproject_inplace ==
    /\ mono_pc = "reproject"
    /\ IF i_observation = Nobservations
       THEN /\ Rt_cf_all' = [i \in 1..Nobservations |-> ZeroPose]
            /\ i_observation' = 0
            /\ mono_pc' = "solve"
            /\ UNCHANGED << observations, observations_copy, reproject_log, mono_err >>
       ELSE IF icam(i_observation) >= Len(models_or_intrinsics)
       THEN /\ mono_err' = "IndexError"
            /\ mono_pc' = "failed"
            /\ UNCHANGED << observations, observations_copy, reproject_log,
                            Rt_cf_all, i_observation >>
       ELSE /\ observations_copy' =
                  [observations_copy EXCEPT ![i_observation + 1] =
                                                reprojected(i_observation)]
            /\ observations' = observations_copy'
            /\ reproject_log' = Append(reproject_log, i_observation)
            /\ i_observation' = i_observation + 1
            /\ UNCHANGED << Rt_cf_all, mono_pc, mono_err >>
    /\ UNCHANGED << models_or_intrinsics, solve_log >>
    /\ UNCHANGED << solveVars, jointVars, seedVars, cornerVars >>

\* One turn of the first loop: row i_observation is reprojected. After the
\* last row, Rt_cf_all is made and the second loop starts.
MonoReproject ==
    /\ mono_pc = "reproject"
    /\ IF i_observation = Nobservations
       THEN /\ Rt_cf_all' = [i \in 1..Nobservations |-> ZeroPose]
            /\ i_observation' = 0
            /\ mono_pc' = "solve"
            /\ UNCHANGED << observations_copy, reproject_log, mono_err >>
       ELSE IF icam(i_observation) >= Len(models_or_intrinsics)
       THEN /\ mono_err' = "IndexError"
            /\ mono_pc' = "failed"
            /\ UNCHANGED << observations_copy, reproject_log, Rt_cf_all,
                            i_observation >>
       ELSE /\ observations_copy' =
                  [observations_copy EXCEPT ![i_observation + 1] =
                                                reprojected(i_observation)]
            /\ reproject_log' = Append(reproject_log, i_observation)
            /\ i_observation' = i_observation + 1
            /\ UNCHANGED << Rt_cf_all, mono_pc, mono_err >>
    /\ UNCHANGED << models_or_intrinsics, observations, solve_log >>
    /\ UNCHANGED << solveVars, jointVars, seedVars, cornerVars >>

\* The end of one turn of the second loop: the calls of the solver are
\* logged; an exception ends the function, else the pose is stored.
MonoStore(error, calls, Rt_cf) ==
    /\ solve_log' = solve_log \o calls
    /\ IF error # ""
       THEN /\ mono_err' = error
            /\ mono_pc' = "failed"
            /\ UNCHANGED << Rt_cf_all, i_observation >>
       ELSE /\ Rt_cf_all' = [Rt_cf_all EXCEPT ![i_observation + 1] = Rt_cf]
            /\ i_observation' = i_observation + 1
            /\ UNCHANGED << mono_err, mono_pc >>

\* One turn of the second loop: the valid points of row i_observation go to
\* the solver, once, or twice when the object ended up behind the camera.
MonoSolve ==
    /\ mono_pc = "solve"
    /\ i_observation < Nobservations
    /\ LET d == valid_rows(i_observation)
           observations_local == [k \in 1..Len(d) |-> << d[k][1], d[k][2] >>]
           ref_object         == [k \in 1..Len(d) |-> d[k][4]]
       IN  \E out1 \in solvePnP(i_observation, ref_object, observations_local, NoGuess) :
             LET call1 == [i_observation |-> i_observation,
                           ref_object |-> ref_object,
                           observations_local |-> observations_local,
                           guess |-> NoGuess, out |-> out1]
                 guess == [useExtrinsicGuess |-> TRUE, rvec |-> out1.rvec,
                           tvec |-> neg_tvec(out1.tvec)]
             IN  IF out1.raised
                 THEN MonoStore("cv2.error", << call1 >>, ZeroPose)
                 ELSE IF ~ out1.result
                 THEN MonoStore("SolvePnPFailed", << call1 >>, ZeroPose)
                 ELSE IF behind_camera(out1.tvec)
                 THEN \E out2 \in solvePnP(i_observation, ref_object,
                                           observations_local, guess) :
                        LET call2 == [call1 EXCEPT !.guess = guess, !.out = out2]
                        IN  IF out2.raised
                            THEN MonoStore("cv2.error", << call1, call2 >>, ZeroPose)
                            ELSE IF ~ out2.result
                            THEN MonoStore("RetriedSolvePnPFailed",
                                           << call1, call2 >>, ZeroPose)
                            ELSE IF behind_camera(out2.tvec)
                            THEN MonoStore("PoseBehindCamera",
                                           << call1, call2 >>, ZeroPose)
                            ELSE MonoStore("", << call1, call2 >>,
                                           Rt_from_rt(out2.rvec, out2.tvec))
                 ELSE MonoStore("", << call1 >>, Rt_from_rt(out1.rvec, out1.tvec))
    /\ UNCHANGED << models_or_intrinsics, observations, observations_copy,
                    reproject_log >>
    /\ UNCHANGED << solveVars, jointVars, seedVars, cornerVars >>

\* return Rt_cf_all
MonoReturn ==
    /\ mono_pc = "solve"
    /\ i_observation = Nobservations
    /\ mono_pc' = "done"
    /\ UNCHANGED << models_or_intrinsics, observations, observations_copy,
                    mono_err, Rt_cf_all, solve_log, reproject_log, i_observation >>
    /\ UNCHANGED << solveVars, jointVars, seedVars, cornerVars >>

\* ------------------------------------ actions of estimate_joint_frame_poses

\* frames_rt_toref = nps.glue(frames_rt_toref, mrcal.rt_from_Rt(Rt), axis=-2),
\* for Rt = Rt_ref_frame(i_observation0, i_observation1); an exception of
\* Rt_ref_frame ends the function.
JointGlue(i_observation0, i_observation1, pc_next) ==
    LET r == Rt_ref_frame(i_observation0, i_observation1)
    IN  /\ joint_log' = Append(joint_log, r.call)
        /\ IF r.err # ""
           THEN /\ joint_err' = r.err
                /\ joint_pc' = "failed"
                /\ frames_rt_toref' = frames_rt_toref
           ELSE /\ joint_err' = joint_err
                /\ joint_pc' = pc_next
                /\ frames_rt_toref' = Append(frames_rt_toref, rt_from_Rt(r.Rt))

\* One turn of the loop over the rows: a new frame index finishes the frame
\* before it.
JointRow ==
    /\ joint_pc = "loop"
    /\ i_observation < Nobservations
    /\ IF iframe(i_observation) # iframe_current
       THEN /\ IF i_observation_framestart >= 0
               THEN JointGlue(i_observation_framestart, i_observation, "loop")
               ELSE UNCHANGED << joint_log, joint_err, joint_pc, frames_rt_toref >>
            /\ i_observation_framestart' = i_observation
            /\ iframe_current' = iframe(i_observation)
       ELSE UNCHANGED << joint_log, joint_err, joint_pc, frames_rt_toref,
                         i_observation_framestart, iframe_current >>
    /\ i_observation' = i_observation + 1
    /\ UNCHANGED extrinsics_Rt_fromref
    /\ UNCHANGED << solveVars, monoVars, seedVars, cornerVars >>

\* A bug: the array is returned without the frame that was open when the
\* rows ran out.
JointReturn_nolast ==
    /\ joint_pc = "loop"
    /\ i_observation = Nobservations
    /\ joint_pc' = "done"
    /\ UNCHANGED << joint_log, joint_err, frames_rt_toref >>
    /\ UNCHANGED << extrinsics_Rt_fromref, iframe_current,
                    i_observation_framestart, i_observation >>
    /\ UNCHANGED << solveVars, monoVars, seedVars, cornerVars >>

\* After the loop: the last frame is finished and the array is returned.
JointReturn ==
    /\ joint_pc = "loop"
    /\ i_observation = Nobservations
    /\ IF i_observation_framestart >= 0
       THEN JointGlue(i_observation_framestart, Nobservations, "done")
       ELSE /\ joint_pc' = "done"
            /\ UNCHANGED << joint_log, joint_err, frames_rt_toref >>
    /\ UNCHANGED << extrinsics_Rt_fromref, iframe_current,
                    i_observation_framestart, i_observation >>
    /\ UNCHANGED << solveVars, monoVars, seedVars, cornerVars >>

\* --------------------------------------------------------- make_seed_pinhole

\* (focal, focal, (w-1)/2, (h-1)/2); the imager sizes of the model are odd.
make_intrinsics_vector(imagersize) ==
    << focal_estimate, focal_estimate,
       (imagersize[1] - 1) \div 2, (imagersize[2] - 1) \div 2 >>

\* intrinsics_data and the list of (lensmodel, intrinsics) are made, and
\* estimate_monocular_calobject_poses_Rt_tocam is entered.
SeedStart ==
    /\ seed_pc = "start"
    /\ intrinsics_data' = [c \in 1..Len(imagersizes) |->
                              make_intrinsics_vector(imagersizes[c])]
    /\ models_or_intrinsics' =
          [c \in 1..Len(imagersizes) |->
              << "LENSMODEL_PINHOLE", make_intrinsics_vector(imagersizes[c]) >>]
    /\ mono_pc' = "start"
    /\ seed_pc' = "mono"
    /\ UNCHANGED << observations, observations_copy, mono_err, Rt_cf_all,
                    solve_log, reproject_log, imagersizes, seed_result,
                    i_observation >>
    /\ UNCHANGED << solveVars, jointVars, cornerVars >>

\* The local poses are back: _estimate_camera_poses is entered with them.
SeedCameraPoses ==
    /\ seed_pc = "mono"
    /\ mono_pc = "done"
    /\ calobject_poses_local_Rt_cf' = Rt_cf_all
    /\ LET n == NcamerasOf(indices_frame_camera)
       IN  /\ Ncameras' = n
           /\ shared_frames' = [x \in 0..n - 1 |-> [y \in 0..n - 1 |-> 0]]
           /\ cost_to_node' = [c \in 0..n - 1 |-> NoCost]
           /\ from_idx' = [c \in 0..n - 1 |-> -1]
           /\ Rt_0c' = [c \in 1..n - 1 |-> NoPose]
    /\ pc' = "start"
    /\ seed_pc' = "cameras"
    /\ UNCHANGED << indices_frame_camera, frame_reps, err, heap, result,
                    pop_log, align_log, pairwise_log, i_observation, imagersizes,
                    intrinsics_data, seed_result >>
    /\ UNCHANGED << monoVars, jointVars, cornerVars >>

\* The camera poses are back: they are inverted, or there are none, and
\* estimate_joint_frame_poses is entered.
SeedFramePoses ==
    /\ seed_pc = "cameras"
    /\ pc = "done"
    /\ extrinsics_Rt_fromref' =
          IF Len(result.Rt) # 0
          THEN [c \in 1..Len(result.Rt) |-> invert_Rt(result.Rt[c])]
          ELSE << >>
    /\ joint_pc' = "loop"
    /\ i_observation' = 0
    /\ seed_pc' = "frames"
    /\ UNCHANGED << joint_err, iframe_current, i_observation_framestart,
                    frames_rt_toref, joint_log, imagersizes, intrinsics_data,
                    seed_result >>
    /\ UNCHANGED << solveVars, monoVars, cornerVars >>

\* return intrinsics_data, rt_from_Rt(extrinsics_Rt_fromref), frames_rt_toref
SeedReturn ==
    /\ seed_pc = "frames"
    /\ joint_pc = "done"
    /\ seed_result' =
          [returned |-> TRUE,
           intrinsics_data |-> intrinsics_data,
           extrinsics_rt_fromref |->
               [c \in 1..Len(extrinsics_Rt_fromref) |->
                   rt_from_Rt(extrinsics_Rt_fromref[c])],
           frames_rt_toref |-> frames_rt_toref]
    /\ seed_pc' = "done"
    /\ UNCHANGED << imagersizes, intrinsics_data, i_observation >>
    /\ UNCHANGED << solveVars, monoVars, jointVars, cornerVars >>

\* ----------------------------------- the other functions, each on its own

\* The grids of one row: five points, of which some are marked as not seen
\* by a negative x, y or weight; the first point lies on the imager's edge.
InteriorPoint == << 1, 1, 1 >>

EdgePoint == << 0, 2, 0 >>

GridChoices ==
    { << EdgePoint, InteriorPoint, InteriorPoint, InteriorPoint, InteriorPoint >>,
      << << -1, 1, 1 >>, InteriorPoint, InteriorPoint, InteriorPoint, InteriorPoint >>,
      << InteriorPoint, << 1, -1, 1 >>, InteriorPoint, InteriorPoint, InteriorPoint >>,
      << InteriorPoint, InteriorPoint, << 1, 1, -1 >>, << 1, 1, -1 >>, InteriorPoint >> }

ImagerSize == << 3, 3 >>

NextMono == MonoCheckCore \/ MonoReproject \/ MonoSolve \/ MonoReturn

\* estimate_monocular_calobject_poses_Rt_tocam on every list of at most
\* MaxObsM rows of NCamsM cameras, row k in frame k, with every lens model for
\* every camera and every grid of GridChoices for every row.
InitMono ==
    \E n \in 1..MaxObsM :
        \E cams \in [1..n -> 0..NCamsM - 1] :
            \E models \in [1..NCamsM -> LensModelNames] :
                \E grids \in [1..n -> GridChoices] :
                    /\ SolveIdle([k \in 1..n |-> << k - 1, cams[k] >>], << >>)
                    /\ i_observation = 0
                    /\ models_or_intrinsics =
                          [c \in 1..NCamsM |->
                              << models[c], make_intrinsics_vector(ImagerSize) >>]
                    /\ observations = grids
                    /\ observations_copy = << >>
                    /\ mono_pc = "start"
                    /\ mono_err = ""
                    /\ Rt_cf_all = << >>
                    /\ solve_log = << >>
                    /\ reproject_log = << >>
                    /\ JointIdle
                    /\ SeedIdle
                    /\ CornersIdle

SpecMono == InitMono /\ [][NextMono]_vars

\* The local poses of a scene in which every second row is off by noise.
NoisyLocalPosesOf(rows, noise) ==
    [i \in 1..Len(rows) |->
        IF i % 2 = 0 THEN compose_Rt(noise, LocalPosesOf(rows)[i])
        ELSE LocalPosesOf(rows)[i]]

\* No noise, a shift, a half turn.
NoiseChoices == { identity_Rt, [a |-> 1, b |-> 1], [a |-> 6, b |-> 0] }

\* The pose of camera c from the reference, camera 0, in the scene.
ExtrinsicsTrue(c) == compose_Rt(CamPoseTrue(c), invert_Rt(CamPoseTrue(0)))

NextJoint == JointRow \/ JointReturn

\* estimate_joint_frame_poses on every list of at most MaxObsJ rows whose
\* frame indices do not decrease, with the extrinsics of the scene.
InitJoint ==
    \E n \in 1..MaxObsJ :
        \E rows \in [1..n -> (0..NFramesJ - 1) \X (0..NCamsJ - 1)] :
            \E noise \in NoiseChoices :
                /\ \A k \in 1..n - 1 : rows[k][1] <= rows[k + 1][1]
                /\ SolveIdle(rows, NoisyLocalPosesOf(rows, noise))
                /\ i_observation = 0
                /\ MonoIdle
                /\ extrinsics_Rt_fromref = [c \in 1..NCamsJ - 1 |-> ExtrinsicsTrue(c)]
                /\ joint_pc = "loop"
                /\ joint_err = ""
                /\ iframe_current = -1
                /\ i_observation_framestart = -1
                /\ frames_rt_toref = << >>
                /\ joint_log = << >>
                /\ SeedIdle
                /\ CornersIdle

SpecJoint == InitJoint /\ [][NextJoint]_vars

NextSeed ==
    \/ SeedStart \/ MonoCheckCore \/ MonoReproject \/ MonoSolve \/ MonoReturn
    \/ SeedCameraPoses \/ ComputeConnectivity \/ VisitRoot \/ PopVisit \/ Return
    \/ SeedFramePoses \/ JointRow \/ JointReturn
    \/ SeedReturn

\* make_seed_pinhole on every list of at most MaxObsS rows, for 1..NCams
\* imager sizes, every point of every row being seen.
InitSeed ==
    \E n \in 1..MaxObsS :
        \E rows \in [1..n -> (0..NFrames - 1) \X (0..NCams - 1)] :
            \E given \in 1..NCams :
                /\ SolveIdle(rows, << >>)
                /\ i_observation = 0
                /\ models_or_intrinsics = << >>
                /\ observations = [k \in 1..n |->
                      << EdgePoint, InteriorPoint, InteriorPoint, InteriorPoint,
                         InteriorPoint >>]
                /\ observations_copy = << >>
                /\ mono_pc = "idle"
                /\ mono_err = ""
                /\ Rt_cf_all = << >>
                /\ solve_log = << >>
                /\ reproject_log = << >>
                /\ JointIdle
                /\ imagersizes = [c \in 1..given |-> ImagerSize]
                /\ intrinsics_data = << >>
                /\ seed_pc = "start"
                /\ seed_result = NoSeed
                /\ CornersIdle

SpecSeed == InitSeed /\ [][NextSeed]_vars

\* ----------------------------------------------- compute_chessboard_corners
\* The corner records come as the blocks of lines of one image each: a block
\* is [f, kind, npoints, nskipped], of npoints data lines of which nskipped
\* have the level "-"; kind "nodetect" is the one line "f - - -" of an image
\* without corners, kind "garbage" a line that is no record. An image name f
\* is [frameno, cam]: the frame number its name encodes and the index of the
\* first glob it matches among two, -1 if it matches none. No two blocks
\* have the same name.

\* if Nw != 10 or Nh != 10: raise
MrginghamGridN == 10

\* context['Nvalidpoints'] > 3
MinValidPoints == 3

Nglobs == corners_args.Nglobs

\* accum_files(): the index of the first glob that matches f, -1 for none.
accum_files_icam(f) == IF f.cam >= 0 /\ f.cam < Nglobs THEN f.cam ELSE -1

\* A bug: 3 valid points are enough.
enough_valid_points_three(ctx) == ctx.Nvalidpoints >= MinValidPoints

\* context['Nvalidpoints'] > 3
enough_valid_points(ctx) == ctx.Nvalidpoints > MinValidPoints

\* finish_chessboard_observation() on the working state
\* W = [context, mapping, files_per_camera, err]; mapping is the dict as the
\* sequence of its items, in insertion order.
finish_chessboard_observation(W) ==
    IF W.context.igrid = 0 THEN W
    ELSE IF corners_args.Nw * corners_args.Nh # W.context.igrid
    THEN [W EXCEPT !.err = "BadPointCount"]
    ELSE
    LET f    == W.context.f
        ic   == accum_files_icam(f)
        W1   == [W EXCEPT !.context = context0]
    IN  IF f \notin corners_args.exclude_images /\ enough_valid_points(W.context)
           /\ ic >= 0
        THEN [W1 EXCEPT !.files_per_camera[ic + 1] = Append(@, f),
                        !.mapping = Append(@, [f |-> f,
                                               grid |-> [Nvalidpoints |-> W.context.Nvalidpoints,
                                                         igrid |-> W.context.igrid]])]
        ELSE W1

\* The lines of one block b through the body of the loop over the lines.
read_block(W, b) ==
    IF b.kind = "garbage" THEN [W EXCEPT !.err = "UnexpectedLine"]
    ELSE IF b.kind = "nodetect" THEN finish_chessboard_observation(W)
    ELSE
    LET W1 == IF W.context.f # b.f
              THEN LET Wf == finish_chessboard_observation(W)
                   IN  [Wf EXCEPT !.context.f = b.f]
              ELSE W
    IN  IF W1.err # "" THEN W1
        ELSE [W1 EXCEPT !.context.igrid = @ + b.npoints,
                        !.context.Nvalidpoints = @ + b.npoints - b.nskipped]

\* min_num_images = 2 if len(files_per_camera) > 1 else 1
min_num_images == IF Nglobs > 1 THEN 2 ELSE 1

too_few_images(files) == \E c \in 1..Nglobs : Len(files[c]) < min_num_images

\* mrcal.mapping_file_framenocameraindex(*files_per_camera): the frame number
\* in the name of f, and the camera whose list f is in.
mapping_file_framenocameraindex(f) == << f.frameno, accum_files_icam(f) >>

\* sorted(s, key): Python's sort, which is stable; key is the function of
\* the keys of the elements. insert puts x behind every element whose key
\* is not above its own.
RECURSIVE sorted_insert(_, _, _)
sorted_insert(s, x, key) ==
    IF s = << >> THEN << x >>
    ELSE IF key[s[Len(s)]] <= key[x] THEN Append(s, x)
    ELSE Append(sorted_insert(SubSeq(s, 1, Len(s) - 1), x, key), s[Len(s)])

RECURSIVE sorted(_, _)
sorted(s, key) ==
    IF s = << >> THEN << >>
    ELSE sorted_insert(sorted(SubSeq(s, 1, Len(s) - 1), key), s[Len(s)], key)

\* lambda f: file_framenocameraindex[f][1], and [0]
key_camera(keys) ==
    [f \in { keys[k] : k \in 1..Len(keys) } |-> mapping_file_framenocameraindex(f)[2]]

key_frame(keys) ==
    [f \in { keys[k] : k \in 1..Len(keys) } |-> mapping_file_framenocameraindex(f)[1]]

\* A bug: the files are sorted by camera only.
files_sorted_of_bycamera(keys) == sorted(keys, key_camera(keys))

\* files_sorted: by camera, then by frame.
files_sorted_of(keys) == sorted(sorted(keys, key_camera(keys)), key_frame(keys))

\* The loop over files_sorted from file k on: the rows of
\* indices_frame_camera, frames renumbered from 0.
RECURSIVE index_rows(_, _, _, _)
index_rows(files, k, iframe_last, index_frame) ==
    IF k > Len(files) THEN << >>
    ELSE LET fc == mapping_file_framenocameraindex(files[k])
             ix == IF iframe_last = -1 \/ iframe_last # fc[1]
                   THEN index_frame + 1 ELSE index_frame
         IN  << << ix, fc[2] >> >> \o index_rows(files, k + 1, fc[1], ix)

\* The grid of file f in the mapping.
grid_of(map, f) == (CHOOSE e \in { map[k] : k \in 1..Len(map) } : e.f = f).grid

\* ------------------------------------ actions of compute_chessboard_corners

CornersWork ==
    [context |-> context, mapping |-> mapping,
     files_per_camera |-> files_per_camera, err |-> ""]

\* The working state W is stored; an exception ends the call.
CornersCommit(W, pc_next) ==
    /\ context' = W.context
    /\ mapping' = W.mapping
    /\ files_per_camera' = W.files_per_camera
    /\ corners_err' = W.err
    /\ corners_pc' = IF W.err # "" THEN "failed" ELSE pc_next

CornersRaise(e) ==
    /\ corners_pc' = "failed"
    /\ corners_err' = e

\* get_corner_observations() up to the loop over the lines: the cache path
\* is looked at, and the detector is started if there is nothing to read.
CornersStart ==
    /\ corners_pc = "start"
    /\ files_per_camera' = [c \in 1..Nglobs |-> << >>]
    /\ context' = context0
    /\ mapping' = << >>
    /\ IF corners_args.cache = "dir"
       THEN /\ CornersRaise("CachePathIsDirectory")
            /\ UNCHANGED << tmpfile, corners_output >>
       ELSE IF corners_args.cache \in {"None", "absent"}
       THEN IF corners_args.Nw # MrginghamGridN \/ corners_args.Nh # MrginghamGridN
            THEN /\ CornersRaise("GridNot10x10")
                 /\ UNCHANGED << tmpfile, corners_output >>
            ELSE /\ tmpfile' = IF corners_args.cache = "absent"
                               THEN [exists |-> TRUE, complete |-> FALSE, blocks |-> << >>]
                               ELSE tmpfile
                 /\ corners_output' = "running"
                 /\ corners_pc' = "read"
                 /\ UNCHANGED corners_err
       ELSE /\ corners_pc' = "read"
            /\ UNCHANGED << corners_err, tmpfile, corners_output >>
    /\ UNCHANGED << corners_args, corners_input, corners_i, cache_file, corners_result >>
    /\ UNCHANGED << solveVars, i_observation, monoVars, jointVars, seedVars >>

\* The lines of the next image: written to the temporary file, then parsed.
CornersReadBlock ==
    /\ corners_pc = "read"
    /\ corners_i < Len(corners_input)
    /\ LET b == corners_input[corners_i + 1]
       IN  /\ tmpfile' = IF tmpfile.exists
                         THEN [tmpfile EXCEPT !.blocks = Append(@, b)]
                         ELSE tmpfile
           /\ CornersCommit(read_block(CornersWork, b), "read")
    /\ corners_i' = corners_i + 1
    /\ UNCHANGED << corners_args, corners_input, cache_file, corners_output,
                    corners_result >>
    /\ UNCHANGED << solveVars, i_observation, monoVars, jointVars, seedVars >>

\* The end of the input: the last image is finished.
CornersEndOfInput ==
    /\ corners_pc = "read"
    /\ corners_i = Len(corners_input)
    /\ CornersCommit(finish_chessboard_observation(CornersWork),
                     IF corners_output = "running" THEN "wait" ELSE "check")
    /\ UNCHANGED << corners_args, corners_input, corners_i, tmpfile, cache_file,
                    corners_output, corners_result >>
    /\ UNCHANGED << solveVars, i_observation, monoVars, jointVars, seedVars >>

\* corners_output.wait(): the detector exits, with 0 or not.
CornersWait ==
    /\ corners_pc = "wait"
    /\ \E status \in {0, 1} :
          /\ corners_output' = IF status = 0 THEN "exit0" ELSE "exitfail"
          /\ IF status # 0
             THEN CornersRaise("DetectorFailed")
             ELSE /\ corners_pc' = IF tmpfile.exists THEN "move" ELSE "check"
                  /\ UNCHANGED corners_err
    /\ UNCHANGED << corners_args, corners_input, corners_i, context, mapping,
                    files_per_camera, tmpfile, cache_file, corners_result >>
    /\ UNCHANGED << solveVars, i_observation, monoVars, jointVars, seedVars >>

\* shutil.move(tmpfilename, corners_cache_vnl): os.rename() where the two
\* paths are in one filesystem; a copy that is then finished by
\* CornersCopyDone where they are not.
CornersMove ==
    /\ corners_pc = "move"
    /\ IF corners_args.same_filesystem
       THEN /\ cache_file' = [exists |-> TRUE, complete |-> TRUE, blocks |-> tmpfile.blocks]
            /\ tmpfile' = NoFile
            /\ corners_pc' = "check"
       ELSE /\ cache_file' = [exists |-> TRUE, complete |-> FALSE, blocks |-> << >>]
            /\ UNCHANGED tmpfile
            /\ corners_pc' = "copying"
    /\ UNCHANGED << corners_args, corners_input, corners_err, corners_i, context,
                    mapping, files_per_camera, corners_output, corners_result >>
    /\ UNCHANGED << solveVars, i_observation, monoVars, jointVars, seedVars >>

\* The copy of shutil.move() ends, and the temporary file is unlinked.
CornersCopyDone ==
    /\ corners_pc = "copying"
    /\ cache_file' = [exists |-> TRUE, complete |-> TRUE, blocks |-> tmpfile.blocks]
    /\ tmpfile' = NoFile
    /\ corners_pc' = "check"
    /\ UNCHANGED << corners_args, corners_input, corners_err, corners_i, context,
                    mapping, files_per_camera, corners_output, corners_result >>
    /\ UNCHANGED << solveVars, i_observation, monoVars, jointVars, seedVars >>

\* Every camera has min_num_images images, or the call raises.
CornersCheck ==
    /\ corners_pc = "check"
    /\ IF too_few_images(files_per_camera)
       THEN CornersRaise("TooFewImages")
       ELSE /\ corners_pc' = "build"
            /\ UNCHANGED corners_err
    /\ UNCHANGED << corners_args, corners_input, corners_i, context, mapping,
                    files_per_camera, tmpfile, cache_file, corners_output,
                    corners_result >>
    /\ UNCHANGED << solveVars, i_observation, monoVars, jointVars, seedVars >>

\* compute_chessboard_corners() after get_corner_observations(): the files
\* are sorted and the arrays are built.
CornersBuild ==
    /\ corners_pc = "build"
    /\ LET files == files_sorted_of([k \in 1..Len(mapping) |-> mapping[k].f])
       IN  corners_result' =
              [returned |-> TRUE,
               observations |-> [k \in 1..Len(files) |-> grid_of(mapping, files[k])],
               indices_frame_camera |-> index_rows(files, 1, -1, -1),
               files_sorted |-> files]
    /\ corners_pc' = "done"
    /\ UNCHANGED << corners_args, corners_input, corners_err, corners_i, context,
                    mapping, files_per_camera, tmpfile, cache_file, corners_output >>
    /\ UNCHANGED << solveVars, i_observation, monoVars, jointVars, seedVars >>

\* The run is interrupted: nothing is cleaned up.
CornersInterrupt ==
    /\ corners_pc \in {"read", "wait", "move", "copying", "check", "build"}
    /\ corners_pc' = "interrupted"
    /\ UNCHANGED << corners_args, corners_input, corners_err, corners_i, context,
                    mapping, files_per_camera, tmpfile, cache_file, corners_output,
                    corners_result >>
    /\ UNCHANGED << solveVars, i_observation, monoVars, jointVars, seedVars >>

NextCorners ==
    \/ CornersStart \/ CornersReadBlock \/ CornersEndOfInput \/ CornersWait
    \/ CornersMove \/ CornersCopyDone \/ CornersCheck \/ CornersBuild
    \/ CornersInterrupt

\* The image names: two frame numbers for each of two cameras, and a file
\* no glob matches.
CornerFrames == {2, 5}

ImageNames ==
    [frameno : CornerFrames, cam : 0..1] \cup {[frameno |-> 0, cam |-> -1]}

ExcludedName == [frameno |-> 2, cam |-> 0]

\* The block of image f: all the points of the grid, of which all, 4 or 3
\* are valid; one point short; no detection; or a line that is no record.
Block(f, kind, N) ==
    [f |-> f, kind |-> kind,
     npoints  |-> IF kind \in {"nodetect", "garbage"} THEN 0
                  ELSE IF kind = "short" THEN N - 1 ELSE N,
     nskipped |-> IF kind = "four" THEN N - 4
                  ELSE IF kind = "three" THEN N - 3 ELSE 0]

CornersEntry(args, blocks) ==
    /\ SolveIdle(<< >>, << >>)
    /\ i_observation = 0
    /\ MonoIdle
    /\ JointIdle
    /\ SeedIdle
    /\ corners_args = args
    /\ corners_input = blocks
    /\ corners_pc = "start"
    /\ corners_err = ""
    /\ corners_i = 0
    /\ context = context0
    /\ mapping = << >>
    /\ files_per_camera = << >>
    /\ tmpfile = NoFile
    /\ cache_file = IF args.cache = "file"
                    THEN [exists |-> TRUE, complete |-> TRUE, blocks |-> blocks]
                    ELSE NoFile
    /\ corners_output = "none"
    /\ corners_result = CornersNoResult

\* An existing cache of at most MaxImages images in every order, each with
\* 4 or 3 valid points, for one and for two globs, with and without an
\* excluded image.
InitCornersCache ==
    \E n \in 1..MaxImages :
        \E names \in [1..n -> ImageNames] :
            \E kinds \in [1..n -> {"four", "three"}] :
                \E ng \in 1..2 :
                    \E excl \in {{}, {ExcludedName}} :
                        /\ \A j, k \in 1..n : j # k => names[j] # names[k]
                        /\ CornersEntry(
                              [Nw |-> MrginghamGridN, Nh |-> MrginghamGridN,
                               Nglobs |-> ng, exclude_images |-> excl,
                               cache |-> "file", same_filesystem |-> TRUE],
                              [k \in 1..n |->
                                  Block(names[k], kinds[k],
                                        MrginghamGridN * MrginghamGridN)])

\* The images of one camera with every cache path: none given, no file,
\* a file, a directory, an open pipe; the temporary directory in the
\* filesystem of the cache or in another; a 10x10 and a 5x10 board.
InitCornersDetector ==
    \E n \in 1..2 :
        \E names \in [1..n -> [frameno : CornerFrames, cam : {0}]] :
            \E kinds \in [1..n -> {"all", "nodetect", "short", "garbage"}] :
                \E cache \in {"None", "absent", "file", "dir", "pipe"} :
                    \E samefs \in BOOLEAN :
                        \E Nw \in {5, MrginghamGridN} :
                            /\ \A j, k \in 1..n : j # k => names[j] # names[k]
                            /\ CornersEntry(
                                  [Nw |-> Nw, Nh |-> MrginghamGridN,
                                   Nglobs |-> 1, exclude_images |-> {},
                                   cache |-> cache, same_filesystem |-> samefs],
                                  [k \in 1..n |->
                                      Block(names[k], kinds[k], Nw * MrginghamGridN)])

InitCorners == InitCornersCache \/ InitCornersDetector

SpecCorners == InitCorners /\ [][NextCorners]_vars

\* ------------------------------------------------- what the claims speak of

Terminal == pc \in {"done", "failed"}

FramesNonDecreasing ==
    \A i \in 0..Nobservations - 2 : iframe(i) <= iframe(i + 1)

\* Some frame holds two observations of one camera.
HasDuplicateObservation ==
    \E i, j \in 0..Nobservations - 1 : i < j /\ Row(i) = Row(j)

\* The data-model invariants of the index list.
WellFormedList == FramesNonDecreasing /\ ~ HasDuplicateObservation

\* Within every frame the rows are in order of camera index.
CamerasInOrder ==
    \A i \in 0..Nobservations - 2 :
        iframe(i) = iframe(i + 1) => icam(i) < icam(i + 1)

CamerasNonDecreasing ==
    \A i \in 0..Nobservations - 2 :
        iframe(i) = iframe(i + 1) => icam(i) <= icam(i + 1)

\* The frames in which both camera x and camera y have an observation.
FramesWithBoth(x, y) ==
    { f \in { iframe(i) : i \in 0..Nobservations - 1 } :
        /\ \E i \in 0..Nobservations - 1 : Row(i) = << f, x >>
        /\ \E i \in 0..Nobservations - 1 : Row(i) = << f, y >> }

\* The cameras with a path to camera 0 over pairs sharing a frame.
RECURSIVE ReachFrom(_)
ReachFrom(R) ==
    LET R2 == R \cup { c \in Cameras :
                         \E n \in R : n # c /\ shared_frames[n][c] > 0 }
    IN  IF R2 = R THEN R ELSE ReachFrom(R2)

ConnectedToRef == ReachFrom({0})

\* <<hops, shared frames in total>> of every simple path from camera 0 to c.
RECURSIVE PathStats(_, _)
PathStats(c, avoid) ==
    IF c = 0 THEN { << 0, 0 >> }
    ELSE UNION { { << st[1] + 1, st[2] + shared_frames[n][c] >> :
                     st \in PathStats(n, avoid \cup {c}) } :
                 n \in { m \in Cameras \ (avoid \cup {c}) :
                           shared_frames[m][c] > 0 } }

PathCost(st) == st[1] * EdgeCostK - st[2]

SetMin(S) == CHOOSE x \in S : \A y \in S : x <= y

MinPathCost(c) == SetMin({ PathCost(st) : st \in PathStats(c, {}) })

\* <<hops, shared frames in total>> of the path from_idx traces back from c,
\* << -1, -1 >> when it does not end at camera 0.
RECURSIVE ChainStats(_, _)
ChainStats(c, fuel) ==
    IF c = 0 THEN << 0, 0 >>
    ELSE IF fuel = 0 \/ from_idx[c] = -1 \/ shared_frames[from_idx[c]][c] = 0
    THEN << -1, -1 >>
    ELSE LET r == ChainStats(from_idx[c], fuel - 1)
         IN  IF r = << -1, -1 >> THEN r
             ELSE << r[1] + 1, r[2] + shared_frames[from_idx[c]][c] >>

SelectedPath(c) == ChainStats(c, Ncameras)

Finalized(c) == c # 0 /\ Rt_0c[c] # NoPose

\* The pose of camera c in camera 0 that the scene was made with.
TruePose0(c) == compose_Rt(CamPoseTrue(0), invert_Rt(CamPoseTrue(c)))

\* ------------------------------------------------------------------ claims

\* C1: whenever some camera of 1..Ncameras-1 has no path to camera 0 over
\* pairs with a positive shared-frame count, the solve ends, after the
\* search, with DisconnectedCameraNetwork and returns no pose array.
\* Stated for the well-formed ordered lists of SpecGraph; violated there.
C1_DisconnectedFails ==
    (Terminal /\ \E c \in 1..Ncameras - 1 : c \notin ConnectedToRef)
        => /\ pc = "failed"
           /\ err = "DisconnectedCameraNetwork"
           /\ heap = << >>
           /\ result = NoResult

\* C2: whenever every camera is connected to camera 0 through pairs with a
\* positive shared-frame count, the search finalizes every camera and does
\* not fail with DisconnectedCameraNetwork; with three cameras, 0-1 and 1-2
\* sharing frames and 0-2 sharing none, camera 2's predecessor is camera 1.
C2_ConnectedSolves ==
    (Terminal /\ ConnectedToRef = Cameras)
        => /\ pc = "done"
           /\ \A c \in 1..Ncameras - 1 : Finalized(c)
           /\ (Ncameras = 3 /\ shared_frames[0][1] > 0 /\ shared_frames[1][2] > 0
               /\ shared_frames[0][2] = 0) => from_idx[2] = 1

\* C3: a finalized camera c with predecessor p has the pose
\* compose(reference pose of p, pairwise pose from c to p), the reference
\* pose of camera 0 being the identity; for a chain 0-1-2 the pose of
\* camera 2 is the composition of the 0-1 and the 1-2 pairwise poses; and
\* with noise-free data it is the pose the scene was made with.
C3_PoseComposition ==
    \A c \in 1..Ncameras - 1 :
        Finalized(c) =>
            LET p == from_idx[c]
            IN  /\ p \in Cameras /\ p # c
                /\ Rt_0c[c] = compose_Rt(IF p = 0 THEN identity_Rt ELSE Rt_0c[p],
                                         compute_pairwise_Rt(p, c).Rt)
                /\ (p # 0 /\ from_idx[p] = 0) =>
                       Rt_0c[c] = compose_Rt(compute_pairwise_Rt(0, p).Rt,
                                             compute_pairwise_Rt(p, c).Rt)
                /\ Rt_0c[c] = TruePose0(c)

\* C3 witness: a solve that ended with the chain 0-1-2.
C3_Witness ==
    /\ pc = "done" /\ Ncameras = 3
    /\ from_idx[1] = 0 /\ from_idx[2] = 1
    /\ Rt_0c[2] # Rt_0c[1]
    /\ Rt_0c[2] # compute_pairwise_Rt(1, 2).Rt

\* C4: the cost a camera has when it is popped is the least cost, summing
\* 100000 - shared_frame_count over the edges, of a path from camera 0, and
\* from_idx traces back a path of that cost to camera 0. Violated.
C4_ShortestPath ==
    \A k \in 1..Len(pop_log) :
        LET c == pop_log[k][1]
        IN  /\ pop_log[k][2] = MinPathCost(c)
            /\ SelectedPath(c) # << -1, -1 >>
            /\ PathCost(SelectedPath(c)) = pop_log[k][2]

\* C5: the path selected for a camera has the fewest hops of all paths from
\* camera 0, and the most shared frames in total among those. Violated.
C5_FewestHops ==
    \A c \in 1..Ncameras - 1 :
        Finalized(c) =>
            LET all     == PathStats(c, {})
                minhops == SetMin({ st[1] : st \in all })
                best    == SetMax({ st[2] : st \in { t \in all : t[1] = minhops } })
            IN  SelectedPath(c) = << minhops, best >>

\* C6: the cost of every edge the search evaluates is strictly positive: the
\* assertion of compute_edge_cost never fails. Violated.
C6_EdgeCostPositive == err # "AssertionError"

\* C7: the connectivity matrix is symmetric for every index list.
C7_Symmetric ==
    \A x, y \in Cameras : shared_frames[x][y] = shared_frames[y][x]

\* C7 witness: a matrix with two different camera pairs sharing frames.
C7_Witness ==
    /\ pc = "root" /\ Ncameras = 3
    /\ shared_frames[0][1] > 0
    /\ shared_frames[1][2] > shared_frames[0][1]

\* C8: for a list with non-decreasing frame indices and every camera at most
\* once per frame, the entry of two distinct cameras is the number of frames
\* in which both have an observation, the first and the last frame included.
C8_SharedFrameCount ==
    (pc # "start" /\ WellFormedList) =>
        \A x, y \in Cameras :
            x # y => shared_frames[x][y]
                       = frame_reps * Cardinality(FramesWithBoth(x, y))

\* C8 witness: cameras 0 and 1 share the first and the last frame of a list.
C8_Witness ==
    /\ pc = "root" /\ WellFormedList
    /\ iframe(0) # iframe(Nobservations - 1)
    /\ FramesWithBoth(0, 1) = { iframe(0), iframe(Nobservations - 1) }
    /\ shared_frames[0][1] = 2

\* C9: a list with two observations of one camera in a frame never gets
\* camera poses: the solve fails with ConflictingObservation. Stated without
\* the kind of the error, and for lists of two cameras or more whose frame
\* indices do not decrease and whose rows are in camera order within a
\* frame: the solve fails. Violated by a solve that returns poses.
C9_DuplicateFails ==
    (HasDuplicateObservation /\ Terminal /\ Ncameras >= 2
     /\ FramesNonDecreasing /\ CamerasNonDecreasing)
        => pc = "failed"

\* C10: compute_pairwise_Rt fails with NoSharedObservations when its scan
\* collects no point, and never hands empty clouds to the alignment.
\* Violated: the clouds go to the alignment whatever their size.
C10_NoEmptyAlignment ==
    \A k \in 1..Len(align_log) : align_log[k].npoints > 0

\* C11: if the frame index decreases anywhere in the list, the solve raises
\* while the connectivity matrix is built, before any pairwise pose or pose
\* in the reference is computed and before the search starts; a list whose
\* frame indices do not decrease never raises this error.
C11_DecreasingFramesRaise ==
    /\ (~ FramesNonDecreasing /\ pc # "start")
          => /\ pc = "failed"
             /\ err = "NonMonotonicFrames"
             /\ align_log = << >>
             /\ pop_log = << >>
             /\ heap = << >>
             /\ \A c \in 1..Ncameras - 1 : Rt_0c[c] = NoPose
             /\ result = NoResult
    /\ FramesNonDecreasing => err # "NonMonotonicFrames"

\* C11 witness: a solve that raised on a decrease at the end of a list whose
\* first rows share a frame of two cameras.
C11_Witness ==
    /\ pc = "failed" /\ err = "NonMonotonicFrames"
    /\ Nobservations >= 3
    /\ iframe(0) = iframe(1) /\ icam(0) # icam(1)
    /\ iframe(Nobservations - 1) < iframe(Nobservations - 2)

\* The calls of the pose solver for row i, by their place in solve_log.
CallsOf(i) == { k \in 1..Len(solve_log) : solve_log[k].i_observation = i }

\* The solver found a pose whose forward translation component is <= 0.
FoundBehind(out) == out.result /\ out.tvec[2] <= 0

\* C12: the pose solver runs at most twice for a row; a second solve happens
\* only after a first solve of the same row whose forward translation
\* component is <= 0, on the same points, with the first result as the
\* initial guess (its rotation, its translation negated), and it always
\* happens then; a second solve with a forward component <= 0 again ends the
\* function with PoseBehindCamera, with no further solve; every pose stored
\* in the array, and so every pose of the array returned, has a forward
\* translation component > 0.
C12_SingleRetry ==
    /\ \A i \in 0..Nobservations - 1 : Cardinality(CallsOf(i)) <= 2
    /\ \A k \in 1..Len(solve_log) :
          LET c == solve_log[k]
          IN  IF c.guess.useExtrinsicGuess
              THEN /\ k > 1
                   /\ solve_log[k - 1].i_observation = c.i_observation
                   /\ ~ solve_log[k - 1].guess.useExtrinsicGuess
                   /\ FoundBehind(solve_log[k - 1].out)
                   /\ c.guess.rvec = solve_log[k - 1].out.rvec
                   /\ c.guess.tvec[1] = (7 - solve_log[k - 1].out.tvec[1]) % 7
                   /\ c.guess.tvec[2] = 0 - solve_log[k - 1].out.tvec[2]
                   /\ c.ref_object = solve_log[k - 1].ref_object
                   /\ c.observations_local = solve_log[k - 1].observations_local
                   /\ FoundBehind(c.out) => /\ k = Len(solve_log)
                                            /\ mono_pc = "failed"
                                            /\ mono_err = "PoseBehindCamera"
              ELSE /\ k = 1 \/ solve_log[k - 1].i_observation # c.i_observation
                   /\ FoundBehind(c.out) =>
                          /\ k < Len(solve_log)
                          /\ solve_log[k + 1].guess.useExtrinsicGuess
    /\ mono_pc \in {"solve", "done"} =>
          \A i \in 1..Len(Rt_cf_all) :
              (i <= i_observation \/ mono_pc = "done") => Rt_cf_all[i].z > 0

\* C12 witness: an array was returned after a retry that followed a first
\* solve with a forward component of exactly 0, and the retried pose is not
\* the first pose.
C12_Witness ==
    /\ mono_pc = "done"
    /\ \E k \in 2..Len(solve_log) :
          /\ solve_log[k].guess.useExtrinsicGuess
          /\ solve_log[k - 1].out.tvec[2] = 0
          /\ solve_log[k].out.rvec # solve_log[k - 1].out.rvec
          /\ Rt_cf_all[solve_log[k].i_observation + 1].z > 0

\* The points of row i, reprojected, that are valid: x, y and weight >= 0.
ValidPointsOf(i) ==
    { k \in 1..Len(observations_copy[i + 1]) :
        /\ observations_copy[i + 1][k][1] >= 0
        /\ observations_copy[i + 1][k][2] >= 0
        /\ observations_copy[i + 1][k][3] >= 0 }

\* Every call of the solver was given the valid points of its row, no other
\* point, each with its own pixel.
ValidPointsGiven ==
    \A k \in 1..Len(solve_log) :
        LET c == solve_log[k]
            i == c.i_observation
        IN  /\ { c.ref_object[j] + 1 : j \in 1..Len(c.ref_object) } = ValidPointsOf(i)
            /\ Len(c.ref_object) = Cardinality(ValidPointsOf(i))
            /\ \A j \in 1..Len(c.ref_object) :
                  c.observations_local[j] =
                      << observations_copy[i + 1][c.ref_object[j] + 1][1],
                         observations_copy[i + 1][c.ref_object[j] + 1][2] >>

\* C13: the points given to the pose solver are the valid points of the row,
\* and a row with fewer than 4 valid points fails with InsufficientPoints
\* without a call of the pose solver on them. Violated: the function has no
\* such check, the solver is called on any number of points.
C13_InsufficientPointsRaise ==
    /\ ValidPointsGiven
    /\ \A k \in 1..Len(solve_log) : Len(solve_log[k].ref_object) >= MinPnPPoints
    /\ (mono_pc = "failed" /\ mono_err # "UnsupportedLensModel"
        /\ Cardinality(ValidPointsOf(i_observation)) < MinPnPPoints)
          => mono_err = "InsufficientPoints"

\* C14: if any camera's lens model lacks the core, the function fails with
\* UnsupportedLensModel before any row is reprojected and before any pose is
\* solved, whether or not a row belongs to that camera, and no array, not
\* even a partial one, comes back.
C14_UnsupportedLensModelFirst ==
    ((\E c \in 1..Len(models_or_intrinsics) :
          ~ lensmodel_metadata(models_or_intrinsics[c][1]).has_core)
     /\ mono_pc \notin {"idle", "start"})
        => /\ mono_pc = "failed"
           /\ mono_err = "UnsupportedLensModel"
           /\ reproject_log = << >>
           /\ observations_copy = << >>
           /\ solve_log = << >>
           /\ Rt_cf_all = << >>

\* C14 witness: the function failed on the lens model of a camera that no
\* row belongs to, every row being of a camera whose model has the core.
C14_Witness ==
    /\ mono_pc = "failed" /\ mono_err = "UnsupportedLensModel"
    /\ \A i \in 0..Nobservations - 1 :
          lensmodel_metadata(models_or_intrinsics[icam(i) + 1][1]).has_core
    /\ \E i \in 0..Nobservations - 1 :
          models_or_intrinsics[icam(i) + 1][1] = "LENSMODEL_OPENCV4"

\* The runs of the index list: run k (from 1) is the rows RunStart(k) ..
\* RunEnd(k) - 1 (from 0), a row starting a run when its frame index differs
\* from the one of the row before.
RunStarts ==
    { i \in 0..Nobservations - 1 : i = 0 \/ iframe(i) # iframe(i - 1) }

Nruns == Cardinality(RunStarts)

RunStart(k) ==
    CHOOSE s \in RunStarts : Cardinality({ t \in RunStarts : t <= s }) = k

RunEnd(k) == IF k = Nruns THEN Nobservations ELSE RunStart(k + 1)

RunRows(k) == RunStart(k)..RunEnd(k) - 1

\* Where row i places the calibration object in the reference: its local
\* pose, taken through the inverse of the extrinsics of its camera.
PlacedInRef(i) ==
    IF icam(i) = 0 THEN calobject_poses_local_Rt_cf[i + 1]
    ELSE compose_Rt(invert_Rt(extrinsics_Rt_fromref[icam(i)]),
                    calobject_poses_local_Rt_cf[i + 1])

\* The sum, over the rows of S, of where each places point p of the object.
RECURSIVE PointSum(_, _)
PointSum(S, p) ==
    IF S = {} THEN 0
    ELSE LET i == CHOOSE j \in S : TRUE
         IN  transform_point(PlacedInRef(i), ref_calibration_object[p])
                + PointSum(S \ {i}, p)

\* The cloud is the point-wise mean over the rows of S.
IsMeanCloud(cloud, S) ==
    /\ Len(cloud) = Len(ref_calibration_object)
    /\ \A p \in 1..Len(cloud) :
          (cloud[p] * Cardinality(S)) % 7 = PointSum(S, p) % 7

\* The pose a returned row stands for.
PoseOfRow(rt) == [a |-> IF rt[1] = 0 THEN 1 ELSE 6, b |-> rt[2]]

\* C16: a frame whose run is one row of camera k gets that row's local pose
\* when k = 0, and otherwise the inverse of extrinsics entry k composed with
\* the local pose; the alignment is not called for it.
C16_SingleObservationPose ==
    \A k \in 1..Len(frames_rt_toref) :
        Cardinality(RunRows(k)) = 1 =>
            LET i == RunStart(k)
            IN  /\ frames_rt_toref[k] =
                      rt_from_Rt(IF icam(i) = 0
                                 THEN calobject_poses_local_Rt_cf[i + 1]
                                 ELSE compose_Rt(
                                        invert_Rt(extrinsics_Rt_fromref[icam(i)]),
                                        calobject_poses_local_Rt_cf[i + 1]))
                /\ ~ joint_log[k].aligned

\* C16 witness: the function returned with a one-row frame of camera 0 and a
\* one-row frame of a camera whose extrinsics are not their own inverse.
C16_Witness ==
    /\ joint_pc = "done"
    /\ \E k \in 1..Len(frames_rt_toref) :
          Cardinality(RunRows(k)) = 1 /\ icam(RunStart(k)) = 0
    /\ \E k \in 1..Len(frames_rt_toref) :
          /\ Cardinality(RunRows(k)) = 1
          /\ icam(RunStart(k)) # 0
          /\ invert_Rt(extrinsics_Rt_fromref[icam(RunStart(k))])
                # extrinsics_Rt_fromref[icam(RunStart(k))]

\* C17: for a frame whose run has n >= 2 rows the alignment is called, once,
\* on the point-wise mean over exactly the rows of the run of where each row
\* places the object in the reference, and on the canonical object; the pose
\* that comes back maps the canonical object onto the mean cloud.
C17_MeanOverTheRun ==
    \A k \in 1..Len(joint_log) :
        Cardinality(RunRows(k)) >= 2 =>
            /\ joint_log[k].aligned
            /\ joint_log[k].range =
                  [i_observation0 |-> RunStart(k), i_observation1 |-> RunEnd(k)]
            /\ IsMeanCloud(joint_log[k].A, RunRows(k))
            /\ joint_log[k].B = ref_calibration_object
            /\ k <= Len(frames_rt_toref) =>
                  \A p \in 1..Len(ref_calibration_object) :
                      transform_point(PoseOfRow(frames_rt_toref[k]),
                                      ref_calibration_object[p])
                         = joint_log[k].A[p]

\* C17 witness: a frame of 2 rows that do not agree, between two other
\* frames, has its pose.
C17_Witness ==
    \E k \in 2..Len(frames_rt_toref) :
        /\ k < Nruns
        /\ Cardinality(RunRows(k)) = 2
        /\ \E i, j \in RunRows(k) : PlacedInRef(i) # PlacedInRef(j)
        /\ joint_pc = "done"

\* The pose of the calibration object in the reference at frame f, in the
\* scene the local poses are made from.
GroundTruth(f) == compose_Rt(CamPoseTrue(0), FramePoseTrue(f))

\* C18: a frame seen by 2 cameras whose rows place the object identically
\* in the reference gets that pose, which is what the single-observation
\* rule gives for either row; its alignment does not fail.
C18_NoiseFreePair ==
    \A k \in 1..Len(joint_log) :
        LET i == RunStart(k)
        IN  (/\ Cardinality(RunRows(k)) = 2
             /\ icam(i) # icam(i + 1)
             /\ PlacedInRef(i) = PlacedInRef(i + 1))
            => /\ Len(frames_rt_toref) >= k
               /\ frames_rt_toref[k] = rt_from_Rt(PlacedInRef(i))
               /\ frames_rt_toref[k] = rt_from_Rt(PlacedInRef(i + 1))

\* C18 witness: the function returned the ground-truth pose for a frame seen
\* by camera 0 and by a camera whose extrinsics are not their own inverse,
\* both rows placing the object at the ground truth.
C18_Witness ==
    /\ joint_pc = "done"
    /\ \E k \in 1..Len(frames_rt_toref) :
          LET i == RunStart(k)
          IN  /\ Cardinality(RunRows(k)) = 2
              /\ icam(i) = 0
              /\ icam(i + 1) # 0
              /\ invert_Rt(extrinsics_Rt_fromref[icam(i + 1)])
                    # extrinsics_Rt_fromref[icam(i + 1)]
              /\ PlacedInRef(i) = GroundTruth(iframe(i))
              /\ PlacedInRef(i + 1) = GroundTruth(iframe(i))
              /\ frames_rt_toref[k] = rt_from_Rt(GroundTruth(iframe(i)))

\* The pose of run k: the one that maps the canonical object onto the mean
\* of where the rows of the run place it.
IsPoseOfRun(rt, k) ==
    IsMeanCloud(object_points(PoseOfRow(rt)), RunRows(k))

\* C19: what estimate_joint_frame_poses returns for a list of non-decreasing
\* frame indices has one row per distinct frame index, row k being the pose
\* of the k-th distinct frame, the last one included; if the frame indices
\* are 0, 1, 2, ... the row of frame index f is row f.
C19_OnePosePerFrame ==
    (joint_pc = "done" /\ FramesNonDecreasing) =>
        /\ Len(frames_rt_toref)
              = Cardinality({ iframe(i) : i \in 0..Nobservations - 1 })
        /\ Len(frames_rt_toref) = Nruns
        /\ \A k \in 1..Nruns : IsPoseOfRun(frames_rt_toref[k], k)
        /\ { iframe(i) : i \in 0..Nobservations - 1 } = 0..Nruns - 1
              => \A i \in 0..Nobservations - 1 :
                    /\ i \in RunRows(iframe(i) + 1)
                    /\ IsPoseOfRun(frames_rt_toref[iframe(i) + 1], iframe(i) + 1)

\* C19 witness: the function returned for a list of 3 frames, the last of
\* which has one row and a pose that differs from the one before it.
C19_Witness ==
    /\ joint_pc = "done"
    /\ Nruns = 3
    /\ Len(frames_rt_toref) = 3
    /\ Cardinality(RunRows(3)) = 1
    /\ frames_rt_toref[3] # frames_rt_toref[2]
    /\ frames_rt_toref[3] = rt_from_Rt(PlacedInRef(Nobservations - 1))

\* make_seed_pinhole returned, and what it returned.
SeedReturned == seed_pc = "done" /\ seed_result.returned

\* Some stage of make_seed_pinhole raised.
StageFailed == mono_pc = "failed" \/ pc = "failed" \/ joint_pc = "failed"

\* Intrinsics for every imager size given.
IntrinsicsComplete ==
    /\ Len(seed_result.intrinsics_data) = Len(imagersizes)
    /\ \A c \in 1..Len(imagersizes) :
          seed_result.intrinsics_data[c] = make_intrinsics_vector(imagersizes[c])

\* Extrinsics for every camera but camera 0: row c is the pose, from the
\* reference, of camera c as the network solve found it.
ExtrinsicsComplete ==
    /\ Len(seed_result.extrinsics_rt_fromref) = Len(imagersizes) - 1
    /\ \A c \in 1..Len(imagersizes) - 1 :
          /\ c <= Len(result.Rt)
          /\ result.Rt[c] # NoPose
          /\ seed_result.extrinsics_rt_fromref[c] = rt_from_Rt(invert_Rt(result.Rt[c]))

\* One pose for every frame of the index list.
FramePosesComplete ==
    Len(seed_result.frames_rt_toref)
        = Cardinality({ iframe(i) : i \in 0..Nobservations - 1 })

\* Every row had its pose solved and stored: none is skipped, none is left
\* at the zeros the array starts with.
NoObservationSkipped ==
    /\ Len(Rt_cf_all) = Nobservations
    /\ \A i \in 0..Nobservations - 1 :
          /\ CallsOf(i) # {}
          /\ Rt_cf_all[i + 1] # ZeroPose
          /\ calobject_poses_local_Rt_cf[i + 1] = Rt_cf_all[i + 1]

\* C15: make_seed_pinhole is all-or-nothing: once a stage has raised nothing
\* is returned, and what is returned has the intrinsics of every camera, the
\* extrinsics of every camera but camera 0 and a pose for every frame, no
\* row having been skipped.
C15_AllOrNothing ==
    /\ StageFailed => (seed_pc # "done" /\ seed_result = NoSeed)
    /\ SeedReturned =>
          /\ ~ StageFailed
          /\ IntrinsicsComplete
          /\ ExtrinsicsComplete
          /\ FramePosesComplete
          /\ NoObservationSkipped

\* C20: what make_seed_pinhole returns has as many intrinsics rows as imager
\* sizes were given, and one extrinsics row fewer: row k is the pose of
\* camera k, there is none for camera 0, and none at all for one camera.
C20_ExtrinsicsRows ==
    SeedReturned =>
        /\ Len(seed_result.intrinsics_data) = Len(imagersizes)
        /\ Len(seed_result.extrinsics_rt_fromref)
              = Len(seed_result.intrinsics_data) - 1
        /\ \A k \in 1..Len(imagersizes) - 1 :
              seed_result.extrinsics_rt_fromref[k]
                 = rt_from_Rt(invert_Rt(result.Rt[k]))

\* C24: the search calls compute_pairwise_Rt only for a predecessor and a
\* camera that share a frame: never for a pair whose shared-frame count is
\* 0, never for a camera and itself. A pair without a direct edge is no
\* error: its camera is reached through others.
C24_PairwiseOnlyOnEdges ==
    \A k \in 1..Len(pairwise_log) :
        LET p == pairwise_log[k].icam_to
            c == pairwise_log[k].icam_from
        IN  /\ p \in Cameras /\ c \in Cameras
            /\ p # c
            /\ shared_frames[p][c] > 0

\* C24 witness: a solve that returned the pose of camera 2, which shares no
\* frame with camera 0, after two calls of compute_pairwise_Rt.
C24_Witness ==
    /\ pc = "done" /\ Ncameras = 3
    /\ shared_frames[0][2] = 0
    /\ Len(pairwise_log) = 2
    /\ pairwise_log[2] = [icam_to |-> 1, icam_from |-> 2]

\* The camera from_idx leads to from c in n steps, -1 if there is none.
RECURSIVE Predecessor(_, _)
Predecessor(c, n) ==
    IF n = 0 THEN c
    ELSE IF c \notin Cameras THEN -1
    ELSE Predecessor(from_idx[c], n - 1)

\* C25: when finish is called for a camera c # 0 its predecessor is a camera,
\* not -1 and not c, that is camera 0 or was finalized by an earlier call;
\* so every finalized camera has a finalized predecessor, and from_idx leads
\* from it to camera 0 in fewer than Ncameras steps, through no camera twice.
C25_PredecessorFinalized ==
    /\ \A k \in 1..Len(pairwise_log) :
          LET p == pairwise_log[k].icam_to
          IN  /\ p \in Cameras
              /\ p # pairwise_log[k].icam_from
              /\ p = 0 \/ \E j \in 1..k - 1 : pairwise_log[j].icam_from = p
    /\ \A c \in 1..Ncameras - 1 :
          Finalized(c) =>
              /\ from_idx[c] \in Cameras
              /\ from_idx[c] = 0 \/ Finalized(from_idx[c])
              /\ \E n \in 1..Ncameras - 1 :
                    /\ Predecessor(c, n) = 0
                    /\ \A i, j \in 0..n :
                          i # j => Predecessor(c, i) # Predecessor(c, j)

\* C25 witness: camera 3 was finalized through cameras 2 and 1.
C25_Witness ==
    /\ Ncameras = 4
    /\ Finalized(3)
    /\ from_idx[3] = 2 /\ from_idx[2] = 1 /\ from_idx[1] = 0

\* The cameras of a sequence of camera indices are all different.
NoCameraTwice(h) == \A i, j \in 1..Len(h) : i # j => h[i] # h[j]

\* C26: in one solve no camera is in the priority queue twice or again after
\* it was popped, camera 0 is never in it, no camera is popped twice, the
\* cost and the predecessor of a finalized camera stay those it was popped
\* with, and there are at most Ncameras-1 pops.
C26_PushedAndPoppedOnce ==
    /\ NoCameraTwice(heap)
    /\ \A i \in 1..Len(heap) :
          /\ heap[i] \in 1..Ncameras - 1
          /\ \A k \in 1..Len(pop_log) : pop_log[k][1] # heap[i]
    /\ NoCameraTwice([k \in 1..Len(pop_log) |-> pop_log[k][1]])
    /\ \A k \in 1..Len(pop_log) : pop_log[k][1] \in 1..Ncameras - 1
    /\ Len(pop_log) <= Ncameras - 1
    /\ Len(pairwise_log) = Len(pop_log)
    /\ \A k \in 1..Len(pop_log) :
          LET c == pop_log[k][1]
          IN  /\ pairwise_log[k].icam_from = c
              /\ cost_to_node[c] = pop_log[k][2]
              /\ from_idx[c] = pairwise_log[k].icam_to
    /\ \A c \in 1..Ncameras - 1 :
          Finalized(c) => \E k \in 1..Len(pop_log) : pop_log[k][1] = c

\* C26 witness: a solve of 4 cameras returned after 3 pops, the cost of a
\* camera in the queue having been lowered on the way.
C26_Witness ==
    /\ pc = "done" /\ Ncameras = 4
    /\ Len(pop_log) = 3
    /\ \E c \in 1..3 :
          /\ from_idx[c] # 0
          /\ shared_frames[0][c] > 0

\* C27: for a list with non-decreasing frame indices and every camera at
\* most once per frame, and cameras a < b, compute_pairwise_Rt(a, b) collects
\* the points of as many frames as shared_frames[a][b] counts, so that a
\* positive count gives clouds that are not empty, in whatever order the
\* rows of a frame are. Violated by a frame whose rows are not in camera
\* order.
C27_CollectedEqualsWeight ==
    (pc # "start" /\ WellFormedList) =>
        \A a, b \in Cameras :
            a < b =>
                LET r == pairwise_Rt_ordered(a, b)
                IN  /\ r.err # "ConflictingObservation"
                    /\ r.calls[1].nframes = shared_frames[a][b]
                    /\ shared_frames[a][b] > 0 => r.calls[1].npoints > 0

\* C28: for distinct cameras a and b compute_pairwise_Rt(a, b) is the
\* inverse of compute_pairwise_Rt(b, a), both raising if one does, the
\* alignment being called with the smaller index as its 'to' camera either
\* way; compute_pairwise_Rt(a, a) raises and calls no alignment.
C28_PairwiseAntisymmetric ==
    \A a, b \in Cameras :
        LET x == compute_pairwise_Rt(a, b)
            y == compute_pairwise_Rt(b, a)
        IN  IF a = b
            THEN x.err = "SameCamera" /\ x.calls = << >>
            ELSE /\ x.err = y.err
                 /\ x.calls = y.calls
                 /\ \A k \in 1..Len(x.calls) :
                       x.calls[k].icam_to < x.calls[k].icam_from
                 /\ x.err = "" =>
                       /\ x.Rt = invert_Rt(y.Rt)
                       /\ y.Rt = invert_Rt(x.Rt)
                       /\ compose_Rt(x.Rt, y.Rt) = identity_Rt

\* C28 witness: the search called compute_pairwise_Rt with the larger camera
\* index first, for a pair whose pose is not its own inverse, and stored the
\* pose.
C28_Witness ==
    \E k \in 1..Len(pairwise_log) :
        LET p == pairwise_log[k].icam_to
            c == pairwise_log[k].icam_from
        IN  /\ p > c
            /\ Finalized(c)
            /\ compute_pairwise_Rt(p, c).err = ""
            /\ compute_pairwise_Rt(p, c).Rt # compute_pairwise_Rt(c, p).Rt

\* What row i alone says the solver is given: the points of row i of the
\* caller's observations, reprojected with the lens model and the intrinsics
\* of the camera of row i, those of them that are valid, by grid index.
OwnReprojection(i) ==
    LET m == models_or_intrinsics[icam(i) + 1]
    IN  [k \in 1..Len(observations[i + 1]) |->
            LET pt == observations[i + 1][k]
                q  == project_pinhole(unproject(<< pt[1], pt[2] >>, m[1], m[2]), m[2])
            IN  << q[1], q[2], pt[3] >>]

OwnValidIndices(i) ==
    SelectSeq([k \in 1..Len(observations[i + 1]) |-> k],
              LAMBDA k : /\ OwnReprojection(i)[k][1] >= 0
                         /\ OwnReprojection(i)[k][2] >= 0
                         /\ OwnReprojection(i)[k][3] >= 0)

\* The last call of the solver for row i.
LastCallOf(i) == solve_log[SetMax(CallsOf(i))]

\* C29: the pose of row i depends on row i of the observations, on the
\* camera of row i and on that camera's intrinsics only: what the solver is
\* given for row i is made of these alone, a second call is given the
\* answer of the first, and the pose stored is the solver's last answer.
\* No other row, no position in the list and no frame index comes in.
C29_PoseDependsOnOwnRow ==
    /\ \A k \in 1..Len(solve_log) :
          LET i   == solve_log[k].i_observation
              idx == OwnValidIndices(i)
          IN  /\ solve_log[k].ref_object = [n \in 1..Len(idx) |-> idx[n] - 1]
              /\ solve_log[k].observations_local =
                    [n \in 1..Len(idx) |->
                        << OwnReprojection(i)[idx[n]][1],
                           OwnReprojection(i)[idx[n]][2] >>]
              /\ IF k = 1 \/ solve_log[k - 1].i_observation # i
                 THEN solve_log[k].guess = NoGuess
                 ELSE solve_log[k].guess =
                        [useExtrinsicGuess |-> TRUE,
                         rvec |-> solve_log[k - 1].out.rvec,
                         tvec |-> << (7 - solve_log[k - 1].out.tvec[1]) % 7,
                                     0 - solve_log[k - 1].out.tvec[2] >>]
    /\ mono_pc \in {"solve", "done"} =>
          \A i \in 0..i_observation - 1 :
              /\ CallsOf(i) # {}
              /\ Rt_cf_all[i + 1] = Rt_from_rt(LastCallOf(i).out.rvec,
                                               LastCallOf(i).out.tvec)

\* C29 witness: the function returned the poses of two rows of two cameras
\* with different lens models, the reprojection having changed the second
\* row.
C29_Witness ==
    /\ mono_pc = "done"
    /\ Nobservations = 2
    /\ icam(0) # icam(1)
    /\ models_or_intrinsics[icam(0) + 1][1] = "LENSMODEL_PINHOLE"
    /\ models_or_intrinsics[icam(1) + 1][1] = "LENSMODEL_OPENCV4"
    /\ OwnReprojection(1) # observations[2]
    /\ Rt_cf_all[1] # Rt_cf_all[2]

\* C30: the inputs are not written to: no step of the function changes the
\* caller's observations or the index list; the reprojected pixels go to
\* the function's own copy.
C30_InputsUnchanged ==
    [][/\ observations' = observations
       /\ indices_frame_camera' = indices_frame_camera]_vars

\* C30 witness: the function returned with a copy whose pixels the
\* reprojection has changed.
C30_Witness ==
    /\ mono_pc = "done"
    /\ observations_copy # observations
    /\ \E i \in 1..Nobservations : observations_copy[i] = OwnReprojection(i - 1)
                                   /\ observations_copy[i] # observations[i]

\* What makes the image of block b usable: it has points, at least 4 of
\* them with a level other than "-"; its name is not excluded; a glob
\* matches it.
Usable(b) ==
    /\ b.kind \notin {"nodetect", "garbage"}
    /\ b.npoints - b.nskipped >= 4
    /\ b.f \notin corners_args.exclude_images
    /\ b.f.cam \in 0..corners_args.Nglobs - 1

CornersReturned == corners_pc = "done" /\ corners_result.returned

RowsOfFile(f) ==
    { j \in 1..Len(corners_result.files_sorted) : corners_result.files_sorted[j] = f }

C22_RowsSortedAndRenumbered ==
    CornersReturned =>
        LET rows  == corners_result.indices_frame_camera
            files == corners_result.files_sorted
        IN  /\ Len(rows) = Len(corners_result.observations)
            /\ Len(rows) = Len(files)
            /\ Len(rows) > 0 => rows[1][1] = 0
            /\ \A k \in 1..Len(rows) - 1 :
                  /\ rows[k + 1][1] - rows[k][1] \in {0, 1}
                  /\ rows[k][1] = rows[k + 1][1] => rows[k][2] <= rows[k + 1][2]
            /\ \A k \in 1..Len(rows) : rows[k][2] = files[k].cam
            /\ \A j, k \in 1..Len(rows) :
                  (rows[j][1] < rows[k][1]) <=> (files[j].frameno < files[k].frameno)

\* Returned for two cameras and two frames, the file given first in the
\* input not the first of the rows: the frames numbered 2 and 5 are the
\* frames 0 and 1.
C22_Witness ==
    /\ CornersReturned
    /\ corners_result.indices_frame_camera = << <<0, 0>>, <<0, 1>>, <<1, 0>>, <<1, 1>> >>
    /\ corners_input[1].f = [frameno |-> 5, cam |-> 1]
    /\ corners_result.files_sorted[4] = [frameno |-> 5, cam |-> 1]

\* The exceptions of a detector that failed and of lines that do not parse.
DetectionErrors == {"DetectorFailed", "UnexpectedLine", "BadPointCount"}

\* The cache is made in one step: a file is at the cache path only when all
\* the output was read and the detector exited with 0, and it is whole; a
\* run that failed in the detection, or was interrupted while its
\* temporary file was there, left nothing at the cache path. An existing
\* cache is left as it is, and the detector is not started.
CacheCreatedAtomically ==
    /\ corners_args.cache = "absent" =>
          /\ cache_file.exists =>
                /\ corners_i = Len(corners_input)
                /\ corners_output = "exit0"
          /\ (corners_pc = "failed" /\ corners_err \in DetectionErrors) =>
                ~ cache_file.exists
          /\ (corners_pc = "interrupted" /\ tmpfile.exists) => ~ cache_file.exists
          /\ cache_file.exists =>
                /\ cache_file.complete
                /\ Len(cache_file.blocks) = Len(corners_input)
    /\ corners_args.cache = "file" =>
          /\ corners_output = "none"
          /\ cache_file = [exists |-> TRUE, complete |-> TRUE, blocks |-> corners_input]

\* C23: with a cache path that names no file the detector is run and the
\* cache file appears at once and whole, only after all the output of the
\* detector was read and the detector exited with status 0; if the detector
\* fails, a line does not parse or the run is interrupted there is no file
\* at the cache path; with an existing cache file the detector is never
\* started.
C23_CacheCreatedAtomically == CacheCreatedAtomically

\* ----------------------------------------------------------------- support

\* No pair of cameras shares 100000 frames or more.
EdgesBelowK ==
    \A x, y \in Cameras : shared_frames[x][y] < EdgeCostK

\* No path from camera 0 has 100000 shared frames or more in total.
PathsBelowK ==
    \A c \in Cameras : \A st \in PathStats(c, {}) : st[2] < EdgeCostK

\* Below 100000 shared frames per pair the assertion holds and the search is
\* a shortest-path search that ends as the connectivity of the graph says.
BelowK_SearchHolds ==
    EdgesBelowK => /\ C6_EdgeCostPositive
                   /\ C4_ShortestPath
                   /\ C1_DisconnectedFails
                   /\ C2_ConnectedSolves

\* Below 100000 shared frames per path the selected path has the fewest hops
\* and, among those, the most shared frames.
BelowK_FewestHops ==
    (pc # "start" /\ PathsBelowK) => C5_FewestHops

\* The last camera an imager size is given for has a row in the index list.
LastCameraObserved == NcamerasOf(indices_frame_camera) = Len(imagersizes)

\* If the last camera given is observed, make_seed_pinhole is
\* all-or-nothing and returns one extrinsics row per camera but camera 0.
LastObserved_AllOrNothing ==
    LastCameraObserved => (C15_AllOrNothing /\ C20_ExtrinsicsRows)

\* make_seed_pinhole returned for 3 observed cameras, camera 2 reached
\* through camera 1.
LastObserved_Witness ==
    /\ SeedReturned
    /\ LastCameraObserved
    /\ Len(imagersizes) = 3
    /\ Len(seed_result.extrinsics_rt_fromref) = 2

\* make_seed_pinhole returned 3 intrinsics rows and 1 extrinsics row: an
\* imager size was given for a camera 2 that has no row.
Unobserved_Returned ==
    /\ SeedReturned
    /\ ~ LastCameraObserved
    /\ Len(seed_result.intrinsics_data) = 3
    /\ Len(seed_result.extrinsics_rt_fromref) = 1

\* Whatever cameras are observed, make_seed_pinhole returns nothing once a
\* stage has raised, and what it returns lacks nothing but extrinsics.
AllOrNothing_ButExtrinsics ==
    /\ StageFailed => (seed_pc # "done" /\ seed_result = NoSeed)
    /\ SeedReturned =>
          /\ ~ StageFailed
          /\ IntrinsicsComplete
          /\ FramePosesComplete
          /\ NoObservationSkipped

\* Each stage of make_seed_pinhole is seen to raise.
Seed_FailedInMono == seed_pc = "mono" /\ mono_pc = "failed"

Seed_FailedInNetwork == seed_pc = "cameras" /\ pc = "failed"

Seed_FailedInFrames == seed_pc = "frames" /\ joint_pc = "failed"

\* With the rows of every frame in camera order compute_pairwise_Rt(a, b)
\* collects the points of as many frames as shared_frames[a][b] counts.
InOrder_CollectedEqualsWeight ==
    CamerasInOrder => C27_CollectedEqualsWeight

\* Cameras 0 and 1 share one frame, in which the row of camera 1 comes
\* first: compute_pairwise_Rt(0, 1) collects nothing.
OutOfOrder_CollectsNothing ==
    /\ pc # "start" /\ WellFormedList
    /\ Ncameras >= 2
    /\ shared_frames[0][1] = 1
    /\ pairwise_Rt_ordered(0, 1).calls[1].nframes = 0

\* Returned without the excluded image, which has 4 valid points.
Corners_ExcludedLeftOut ==
    /\ CornersReturned
    /\ \E k \in 1..Len(corners_input) :
          /\ corners_input[k].kind = "four"
          /\ corners_input[k].f \in corners_args.exclude_images
          /\ RowsOfFile(corners_input[k].f) = {}

\* Returned without the image no glob matches, which has 4 valid points.
Corners_UnmatchedLeftOut ==
    /\ CornersReturned
    /\ \E k \in 1..Len(corners_input) :
          /\ corners_input[k].kind = "four"
          /\ corners_input[k].f.cam \notin 0..corners_args.Nglobs - 1
          /\ RowsOfFile(corners_input[k].f) = {}

\* Returned without the image in which nothing was detected.
Corners_UndetectedLeftOut ==
    /\ CornersReturned
    /\ Len(corners_result.files_sorted) > 0
    /\ \E k \in 1..Len(corners_input) :
          /\ corners_input[k].kind = "nodetect"
          /\ RowsOfFile(corners_input[k].f) = {}

\* With the temporary directory in the filesystem of the cache path the
\* cache is made in one step.
SameFilesystem_CacheCreatedAtomically ==
    corners_args.same_filesystem => CacheCreatedAtomically

\* The detector started, and the cache written whole after it exited with 0.
SameFilesystem_CacheWritten ==
    /\ corners_args.cache = "absent"
    /\ corners_args.same_filesystem
    /\ corners_output = "exit0"
    /\ cache_file.complete
    /\ Len(cache_file.blocks) = 2
    /\ ~ tmpfile.exists

\* The detector failed: its output is in the temporary file only.
DetectorFailed_NoCache ==
    /\ corners_args.cache = "absent"
    /\ corners_pc = "failed" /\ corners_err = "DetectorFailed"
    /\ Len(tmpfile.blocks) = 2
    /\ ~ cache_file.exists

\* An existing cache read to the end, no detector started.
ExistingCache_NoDetector ==
    /\ corners_args.cache = "file"
    /\ CornersReturned
    /\ corners_output = "none"

\* A run interrupted in the copy of shutil.move(): a part of the output is
\* at the cache path.
Interrupted_PartialCache ==
    /\ corners_args.cache = "absent"
    /\ ~ corners_args.same_filesystem
    /\ corners_pc = "interrupted"
    /\ cache_file.exists /\ ~ cache_file.complete
    /\ tmpfile.exists

====
